---- MODULE Spec2Model ----
(***************************************************************************)
(* Model of pyrinha: the tree-walking evaluator (interpreter0.py), the     *)
(* bytecode compiler and the stack virtual machine (interpreter1.py), and  *)
(* the runtime values (values.py).                                         *)
(*                                                                         *)
(* Conventions.  Python object references that the code mutates (the       *)
(* ChunkClosure objects, whose env field LetAllocate assigns) are indices  *)
(* into the heap `closures`.  Chunks are referred to by their position in  *)
(* Compiler.chunks, counted from 0; chunk_index counts from 0 as in the    *)
(* source.  Env objects are never mutated by the virtual machine, so they  *)
(* are plain functions from names to values.                               *)
(***************************************************************************)
EXTENDS Integers, Sequences, FiniteSets

\* ---------------------------------------------------------------------------
\* Bounds of the model
\* ---------------------------------------------------------------------------

\* Largest integer argument given to the recursive guest functions.
MaxArg == 3

\* The integer operands given to run_op are -MaxInt..MaxInt.
MaxInt == 7

\* ---------------------------------------------------------------------------
\* nodes.py: locations and terms
\* ---------------------------------------------------------------------------

Loc(start, end) == [start |-> start, end |-> end, filename |-> "prog.rinha"]

\* Location of an exception that is not an ExecutionError (it carries none).
NoLoc == [start |-> -1, end |-> -1, filename |-> ""]

\* A term built at source offset n.
L(n) == Loc(n, n + 1)

IntTerm(n, value) == [kind |-> "Int", location |-> L(n), value |-> value]
StrTerm(n, value) == [kind |-> "Str", location |-> L(n), value |-> value]
BoolTerm(n, value) == [kind |-> "Bool", location |-> L(n), value |-> value]
VarTerm(n, text) == [kind |-> "Var", location |-> L(n), text |-> text]
TupleTerm(n, first, second) ==
    [kind |-> "Tuple", location |-> L(n), first |-> first, second |-> second]
FirstTerm(n, value) == [kind |-> "First", location |-> L(n), value |-> value]
SecondTerm(n, value) == [kind |-> "Second", location |-> L(n), value |-> value]
PrintTerm(n, value) == [kind |-> "Print", location |-> L(n), value |-> value]
IfTerm(n, condition, then, otherwise) ==
    [kind |-> "If", location |-> L(n), condition |-> condition,
     then |-> then, otherwise |-> otherwise]
BinaryTerm(n, lhs, op, rhs) ==
    [kind |-> "Binary", location |-> L(n), lhs |-> lhs, op |-> op, rhs |-> rhs]
LetTerm(n, name, value, next) ==
    [kind |-> "Let", location |-> L(n), name |-> name, value |-> value,
     next |-> next]
FunctionTerm(n, parameters, value) ==
    [kind |-> "Function", location |-> L(n), value |-> value,
     parameters |-> parameters]
CallTerm(n, callee, arguments) ==
    [kind |-> "Call", location |-> L(n), callee |-> callee,
     arguments |-> arguments]
File(name, expression) ==
    [kind |-> "File", location |-> L(0), name |-> name,
     expression |-> expression]

\* BinaryOp.<name>.value.token
OpToken(op) ==
    CASE op = "ADD" -> "+" [] op = "SUB" -> "-" [] op = "MUL" -> "*"
      [] op = "DIV" -> "/" [] op = "REM" -> "%" [] op = "EQ" -> "=="
      [] op = "NEQ" -> "!=" [] op = "LT" -> "<" [] op = "GT" -> ">"
      [] op = "LTE" -> "<=" [] op = "GTE" -> ">=" [] op = "AND" -> "&&"
      [] op = "OR" -> "||"

\* ---------------------------------------------------------------------------
\* values.py: runtime values
\* ---------------------------------------------------------------------------

\* A value of the virtual machine is a record of one shape: k is type(x) for
\* a Literal(x) and "ChunkClosure" for a closure, and x is held by the
\* field named after k.
Value(k) ==
    [k |-> k, int |-> 0, str |-> "", bool |-> FALSE, tuple |-> <<>>, ref |-> 0]

\* Literal(x) with x an int, a str, a bool or a tuple.
LitInt(n) == [Value("int") EXCEPT !.int = n]
LitStr(s) == [Value("str") EXCEPT !.str = s]
LitBool(b) == [Value("bool") EXCEPT !.bool = b]
LitTuple(a, b) == [Value("tuple") EXCEPT !.tuple = <<a, b>>]

\* A reference to the ChunkClosure object closures[id].
ChunkClosure(id) == [Value("ChunkClosure") EXCEPT !.ref = id]

IsLiteral(v) == v.k \in {"int", "str", "bool", "tuple"}

\* isinstance(v.x, int): Python's bool is a subclass of int, so the class
\* pattern int() also accepts True and False.
IsIntInstance(v) == v.k \in {"int", "bool"}

\* The integer a Python int or bool stands for in arithmetic.
IntOf(v) == IF v.k = "bool" THEN (IF v.bool THEN 1 ELSE 0) ELSE v.int

Digit(d) == <<"0", "1", "2", "3", "4", "5", "6", "7", "8", "9">>[d + 1]

RECURSIVE NatStr(_)
NatStr(n) == IF n < 10 THEN Digit(n) ELSE NatStr(n \div 10) \o Digit(n % 10)

\* str(n) for a Python int: base 10 with a leading minus sign.
IntStr(n) == IF n < 0 THEN "-" \o NatStr(-n) ELSE NatStr(n)

\* str(value).  Literal.__str__ tries `case int()` first, which a bool also
\* matches, so a boolean is rendered by str(bool): "True" / "False".  A
\* tuple matches no case: __str__ returns None and str() raises TypeError.
ValueStr(v) ==
    CASE v.k = "int" -> [ok |-> TRUE, s |-> IntStr(v.int)]
      [] v.k = "bool" ->
            [ok |-> TRUE, s |-> IF v.bool THEN "True" ELSE "False"]
      [] v.k = "str" -> [ok |-> TRUE, s |-> v.str]
      [] v.k = "tuple" -> [ok |-> FALSE, s |-> ""]
      [] OTHER -> [ok |-> TRUE, s |-> "<#closure>"]

\* Env.with_values: a copy of the receiver's dict updated with extra.
with_values(env, extra) ==
    [n \in DOMAIN env \cup DOMAIN extra |->
        IF n \in DOMAIN extra THEN extra[n] ELSE env[n]]

\* As Env_with_values, with update() applied to self.values itself rather
\* than to a copy of it.
Env_with_values_InPlace(self, extra) ==
    [self |-> with_values(self, extra), new |-> with_values(self, extra)]

\* The call self.with_values(extra): the dict of the Env it returns (new),
\* and the receiver's own dict as the call leaves it (self).  update() is
\* applied to dict(self.values), a copy.
Env_with_values(self, extra) ==
    [self |-> self, new |-> with_values(self, extra)]

\* Env(): the empty dict.
EmptyEnv == [n \in {} |-> LitInt(0)]

\* {name: value}
Binding(name, value) == [n \in {name} |-> value]

Min(a, b) == IF a < b THEN a ELSE b

\* {name: value for name, value in zip(names, values)}: zip stops at the
\* shorter sequence and a repeated name keeps its last value.
ZipDict(names, values) ==
    LET n == Min(Len(names), Len(values))
    IN  [name \in {names[i] : i \in 1..n} |->
            values[CHOOSE i \in 1..n :
                      /\ names[i] = name
                      /\ \A j \in 1..n : names[j] = name => j <= i]]

\* ---------------------------------------------------------------------------
\* Exceptions
\* ---------------------------------------------------------------------------

NoError == [type |-> "", location |-> NoLoc, msg |-> ""]
ExecutionError(location, msg) ==
    [type |-> "ExecutionError", location |-> location, msg |-> msg]
\* An exception raised by the Python runtime itself.
PyError(type) == [type |-> type, location |-> NoLoc, msg |-> ""]

\* ---------------------------------------------------------------------------
\* interpreter0.py: run_op
\* ---------------------------------------------------------------------------

\* As FloorDiv, rounding towards zero as C's / does.
FloorDiv_TowardsZero(a, b) ==
    LET abs(x) == IF x < 0 THEN -x ELSE x
        q == abs(a) \div abs(b)
    IN  IF (a < 0) = (b < 0) THEN q ELSE -q

\* Python's a // b for b # 0 (floor division).
FloorDiv(a, b) == IF b > 0 THEN a \div b ELSE (-a) \div (-b)

\* Python's a % b for b # 0 (the remainder has the sign of b).
PyMod(a, b) == a - b * FloorDiv(a, b)

Ok(v) == [ok |-> TRUE, v |-> v, err |-> NoError]
Raise(err) == [ok |-> FALSE, v |-> LitInt(0), err |-> err]

\* fail(): the message formats both operands, and formatting a tuple
\* literal raises TypeError before the ExecutionError is built.
fail(lhs, op, rhs, location) ==
    IF ValueStr(lhs).ok /\ ValueStr(rhs).ok
    THEN Raise(ExecutionError(location,
             "Invalid operands for '" \o OpToken(op) \o "': "
                 \o ValueStr(lhs).s \o ", " \o ValueStr(rhs).s))
    ELSE Raise(PyError("TypeError"))

run_op(lhs, op, rhs, location) ==
    IF ~(IsLiteral(lhs) /\ IsLiteral(rhs)) THEN fail(lhs, op, rhs, location)
    ELSE
    LET ii == IsIntInstance(lhs) /\ IsIntInstance(rhs)
        a == IntOf(lhs)
        b == IntOf(rhs)
    IN  CASE op = "ADD" /\ ii -> Ok(LitInt(a + b))
          [] op = "ADD" /\ lhs.k = "str" /\ IsIntInstance(rhs) ->
                Ok(LitStr(lhs.str \o ValueStr(rhs).s))
          [] op = "ADD" /\ IsIntInstance(lhs) /\ rhs.k = "str" ->
                Ok(LitStr(ValueStr(lhs).s \o rhs.str))
          [] op = "ADD" /\ lhs.k = "str" /\ rhs.k = "str" ->
                Ok(LitStr(lhs.str \o rhs.str))
          [] op = "SUB" /\ ii -> Ok(LitInt(a - b))
          [] op = "MUL" /\ ii -> Ok(LitInt(a * b))
          [] op = "DIV" /\ ii ->
                IF b = 0 THEN Raise(PyError("ZeroDivisionError"))
                ELSE Ok(LitInt(FloorDiv(a, b)))
          [] op = "REM" /\ ii ->
                IF b = 0 THEN Raise(PyError("ZeroDivisionError"))
                ELSE Ok(LitInt(PyMod(a, b)))
          [] op = "EQ" ->
                IF lhs.k # rhs.k THEN fail(lhs, op, rhs, location)
                ELSE Ok(LitBool(lhs = rhs))
          [] op = "NEQ" ->
                IF lhs.k # rhs.k THEN fail(lhs, op, rhs, location)
                ELSE Ok(LitBool(lhs # rhs))
          [] op = "LT" /\ ii -> Ok(LitBool(a < b))
          [] op = "GT" /\ ii -> Ok(LitBool(a > b))
          [] op = "LTE" /\ ii -> Ok(LitBool(a <= b))
          [] op = "GTE" /\ ii -> Ok(LitBool(a >= b))
          [] op = "AND" /\ lhs.k = "bool" /\ rhs.k = "bool" ->
                Ok(LitBool(lhs.bool /\ rhs.bool))
          [] op = "OR" /\ lhs.k = "bool" /\ rhs.k = "bool" ->
                Ok(LitBool(lhs.bool \/ rhs.bool))
          [] OTHER -> fail(lhs, op, rhs, location)

\* ---------------------------------------------------------------------------
\* interpreter0.py: evaluate0, the tree-walking evaluator
\*
\* Closure(function, env) objects are frozen, but the Let case stores the new
\* closure in the dict of its own env.  That cycle is kept as a name: the
\* closure [function, env, rec] captures env updated with {rec: itself}
\* when rec is a name, and env alone when rec is "".
\* ---------------------------------------------------------------------------

Closure(function, env, rec) ==
    [k |-> "Closure", x |-> [function |-> function, env |-> env, rec |-> rec]]

\* closure.env
ClosureEnv(f) ==
    IF f.x.rec = "" THEN f.x.env
    ELSE with_values(f.x.env, Binding(f.x.rec, f))

\* The result of an evaluation: a value or an exception, and the lines
\* printed so far.
Ret(v, o) == [ok |-> TRUE, v |-> v, err |-> NoError, out |-> o]
Exc(e, o) == [ok |-> FALSE, v |-> LitInt(0), err |-> e, out |-> o]

RECURSIVE evaluate0(_, _, _)
RECURSIVE evaluate_arguments(_, _, _, _)

\* values = (evaluate0(env, arg) for arg in arguments), as zip() draws them.
evaluate_arguments(env, arguments, acc, o) ==
    IF arguments = <<>> THEN [ok |-> TRUE, vs |-> acc, err |-> NoError, out |-> o]
    ELSE LET r == evaluate0(env, Head(arguments), o)
         IN  IF r.ok
             THEN evaluate_arguments(env, Tail(arguments), Append(acc, r.v),
                                     r.out)
             ELSE [ok |-> FALSE, vs |-> acc, err |-> r.err, out |-> r.out]

evaluate0(env, term, o) ==
    CASE term.kind = "Int" -> Ret(LitInt(term.value), o)
      [] term.kind = "Str" -> Ret(LitStr(term.value), o)
      [] term.kind = "Bool" -> Ret(LitBool(term.value), o)
      \* Literal((first, second)): the two terms themselves, not their values.
      [] term.kind = "Tuple" -> Ret(LitTuple(term.first, term.second), o)
      [] term.kind = "Var" ->
            IF term.text \notin DOMAIN env
            THEN Exc(ExecutionError(term.location,
                        "unknown variable '" \o term.text \o "'"), o)
            ELSE Ret(env[term.text], o)
      [] term.kind = "Function" -> Ret(Closure(term, env, ""), o)
      [] term.kind = "If" ->
            LET cond == evaluate0(env, term.condition, o)
            IN  IF ~cond.ok THEN cond
                ELSE IF cond.v.k = "bool" /\ cond.v.bool
                THEN evaluate0(env, term.then, cond.out)
                ELSE IF cond.v.k = "bool" /\ ~cond.v.bool
                THEN evaluate0(env, term.otherwise, cond.out)
                ELSE Exc(ExecutionError(term.location,
                            "condition in 'if' is not bool"), cond.out)
      [] term.kind = "Print" ->
            LET val == evaluate0(env, term.value, o)
            IN  IF ~val.ok THEN val
                ELSE IF ~ValueStr(val.v).ok
                THEN Exc(PyError("TypeError"), val.out)
                ELSE Ret(val.v, Append(val.out, ValueStr(val.v).s))
      \* `match value` looks at the term of the argument, which is never a
      \* Literal: both projections always raise.
      [] term.kind = "First" ->
            Exc(ExecutionError(term.location,
                   "argument to 'first' is " \o term.value.kind
                       \o ", not a tuple"), o)
      [] term.kind = "Second" ->
            Exc(ExecutionError(term.location,
                   "argument to 'second' is " \o term.value.kind
                       \o ", not a tuple"), o)
      [] term.kind = "Binary" ->
            LET lhs == evaluate0(env, term.lhs, o)
                rhs == evaluate0(env, term.rhs, lhs.out)
                r == run_op(lhs.v, term.op, rhs.v, term.location)
            IN  IF ~lhs.ok THEN lhs
                ELSE IF ~rhs.ok THEN rhs
                ELSE IF r.ok THEN Ret(r.v, rhs.out)
                ELSE Exc(r.err, rhs.out)
      [] term.kind = "Let" ->
            LET val == evaluate0(env, term.value, o)
                new_val == Closure(val.v.x.function, env, term.name)
                next_env ==
                    IF val.v.k = "Closure"
                    THEN with_values(env, Binding(term.name, new_val))
                    ELSE with_values(env, Binding(term.name, val.v))
            IN  IF ~val.ok THEN val
                ELSE evaluate0(next_env, term.next, val.out)
      [] term.kind = "Call" ->
            LET f == evaluate0(env, term.callee, o)
                values == evaluate_arguments(env, term.arguments, <<>>, f.out)
                call_env == with_values(ClosureEnv(f.v),
                               ZipDict(f.v.x.function.parameters, values.vs))
            IN  IF ~f.ok THEN f
                ELSE IF f.v.k # "Closure"
                THEN IF ValueStr(f.v).ok
                     THEN Exc(ExecutionError(term.location,
                                 "'" \o ValueStr(f.v).s \o "' is not callable"),
                              f.out)
                     ELSE Exc(PyError("TypeError"), f.out)
                ELSE IF Len(term.arguments) # Len(f.v.x.function.parameters)
                THEN Exc(ExecutionError(term.location,
                            "called with " \o IntStr(Len(term.arguments))
                                \o " arguments (expecting "
                                \o IntStr(Len(f.v.x.function.parameters))
                                \o ")"), f.out)
                ELSE IF ~values.ok
                THEN Exc(values.err, values.out)
                ELSE evaluate0(call_env, f.v.x.function.value, values.out)
      [] OTHER -> Exc(ExecutionError(term.location, "Unexpected type"), o)

\* run_file0
run_file0(f) == evaluate0(EmptyEnv, f.expression, <<>>)

\* ---------------------------------------------------------------------------
\* interpreter1.py: instructions and chunks
\* ---------------------------------------------------------------------------

InstructionPointer(chunk, chunk_index) ==
    [chunk |-> chunk, chunk_index |-> chunk_index]

Put(location, value) == [instr |-> "Put", location |-> location, value |-> value]
Get(location, name) == [instr |-> "Get", location |-> location, name |-> name]
Write(location) == [instr |-> "Write", location |-> location]
JumpIfFalse(location, target) ==
    [instr |-> "JumpIfFalse", location |-> location, target |-> target]
Jump(location, target) ==
    [instr |-> "Jump", location |-> location, target |-> target]
Allocate(location, names) ==
    [instr |-> "Allocate", location |-> location, names |-> names]
LetAllocate(location, name) ==
    [instr |-> "LetAllocate", location |-> location, name |-> name]
Deallocate(location) == [instr |-> "Deallocate", location |-> location]
Proceed(location) == [instr |-> "Proceed", location |-> location]
Invoke(location) == [instr |-> "Invoke", location |-> location]
Operation(location, op) ==
    [instr |-> "Operation", location |-> location, op |-> op]
Halt(location) == [instr |-> "Halt", location |-> location]
CloseOver(location, fn) ==
    [instr |-> "CloseOver", location |-> location, fn |-> fn]

\* ---------------------------------------------------------------------------
\* interpreter1.py: Compiler
\*
\* The compiler state st is Compiler.chunks plus a record, kept only for the
\* properties, of which instructions each call of compile() emitted:
\* st.spans holds [chunk, start, end, kind, nargs, depth], the chunk
\* compile() was given, len(chunk.instructions) when it was entered and
\* when it returned, the term's variant, for a Call len(arguments), and the
\* number of compile() calls active when it ran; st.depth is that number
\* for the call in progress.
\* ---------------------------------------------------------------------------

\* len(chunk.instructions) of chunk c.
ChunkLen(st, c) == Len(st.chunks[c + 1])

\* Chunk.push
push(st, c, instr) ==
    [st EXCEPT !.chunks[c + 1] = Append(@, instr)]

\* Compiler.new_chunk: the new chunk is the last of Compiler.chunks.
new_chunk(st) == [st EXCEPT !.chunks = Append(@, <<>>)]

\* As patch_target, with the jump's own index as the target.
patch_target_Self(st, c, pos) ==
    [st EXCEPT !.chunks[c + 1][pos + 1].target.chunk_index = pos]

\* jump.target.chunk_index = len(chunk.instructions), for the jump
\* instruction object that was pushed at index pos of chunk c.
patch_target(st, c, pos) ==
    [st EXCEPT !.chunks[c + 1][pos + 1].target.chunk_index = ChunkLen(st, c)]

\* [param.text for param in parameters]
ParamNames(parameters) == parameters

RECURSIVE compile(_, _, _)
RECURSIVE compile_arguments(_, _, _)

\* The match statement of Compiler.compile.  Tuple, First and Second have
\* no case: the statement falls through and nothing is emitted.
compile_term(st, c, term) ==
    CASE term.kind = "Print" ->
            push(compile(st, c, term.value), c, Write(term.location))
      [] term.kind = "Var" -> push(st, c, Get(term.location, term.text))
      [] term.kind = "Int" ->
            push(st, c, Put(term.location, LitInt(term.value)))
      [] term.kind = "Str" ->
            push(st, c, Put(term.location, LitStr(term.value)))
      [] term.kind = "Bool" ->
            push(st, c, Put(term.location, LitBool(term.value)))
      [] term.kind = "Let" ->
            LET s1 == compile(st, c, term.value)
                s2 == push(s1, c, LetAllocate(term.location, term.name))
                s3 == compile(s2, c, term.next)
            IN  push(s3, c, Deallocate(term.location))
      [] term.kind = "Function" ->
            LET s1 == new_chunk(st)
                fn_chunk == Len(s1.chunks) - 1
                s2 == push(s1, fn_chunk,
                           Allocate(term.location, ParamNames(term.parameters)))
                s3 == compile(s2, fn_chunk, term.value)
                s4 == push(s3, fn_chunk, Deallocate(term.location))
                s5 == push(s4, fn_chunk, Proceed(term.location))
            IN  push(s5, c, CloseOver(term.location, fn_chunk))
      [] term.kind = "Binary" ->
            LET s1 == compile(st, c, term.lhs)
                s2 == compile(s1, c, term.rhs)
            IN  push(s2, c, Operation(term.location, term.op))
      [] term.kind = "If" ->
            LET s1 == compile(st, c, term.condition)
                jump_otherwise == ChunkLen(s1, c)
                s2 == push(s1, c, JumpIfFalse(term.location,
                                              InstructionPointer(c, -1)))
                s3 == compile(s2, c, term.then)
                jump_end == ChunkLen(s3, c)
                s4 == push(s3, c, Jump(term.location,
                                       InstructionPointer(c, -1)))
                s5 == patch_target(s4, c, jump_otherwise)
                s6 == compile(s5, c, term.otherwise)
            IN  patch_target(s6, c, jump_end)
      [] term.kind = "Call" ->
            LET s1 == compile_arguments(st, c, term.arguments)
                s2 == compile(s1, c, term.callee)
            IN  push(s2, c, Invoke(term.location))
      [] OTHER -> st

\* Compiler.compile, recording what the call emitted and how many calls
\* of compile were active on the Python stack while it ran (st.depth).
compile(st, c, term) ==
    LET start == ChunkLen(st, c)
        s0 == [st EXCEPT !.depth = @ + 1]
        s1 == compile_term(s0, c, term)
    IN  [s1 EXCEPT !.depth = @ - 1,
                   !.spans = @ \cup
            {[chunk |-> c, start |-> start, end |-> ChunkLen(s1, c),
              kind |-> term.kind,
              nargs |-> IF term.kind = "Call" THEN Len(term.arguments)
                        ELSE 0,
              depth |-> s0.depth]}]

\* for arg in arguments: self.compile(chunk, arg)
compile_arguments(st, c, arguments) ==
    IF arguments = <<>> THEN st
    ELSE compile_arguments(compile(st, c, Head(arguments)), c, Tail(arguments))

\* As compile_file, with the Halt pushed before the expression is compiled.
compile_file_HaltFirst(file) ==
    LET s0 == new_chunk([chunks |-> <<>>, spans |-> {}, depth |-> 0])
        s1 == push(s0, 0, Halt(file.location))
    IN  compile(s1, 0, file.expression)

\* Compiler.compile_file
compile_file(file) ==
    LET s0 == new_chunk([chunks |-> <<>>, spans |-> {}, depth |-> 0])
        s1 == compile(s0, 0, file.expression)
    IN  push(s1, 0, Halt(file.location))

\* ---------------------------------------------------------------------------
\* interpreter1.py: Interpreter
\* ---------------------------------------------------------------------------

VARIABLES
    file,        \* the File given to Compiler.compile_file
    chunks,      \* Compiler.chunks, as returned by compile_file
    spans,       \* what each compile() call emitted (see Compiler)
    ptr,         \* the local ptr of Interpreter.run
    shared,      \* the jump instruction whose target is the very object
                 \* ptr refers to, NotShared when ptr is an object of its own
    stack,       \* Interpreter.stack
    envs,        \* Interpreter.envs
    call_stack,  \* Interpreter.call_stack
    closures,    \* the ChunkClosure objects created so far: [chunk, env]
    out,         \* the lines print() has written to standard output
    status,      \* "running", "halted" (run returned) or "error" (run raised)
    err,         \* the exception run raised, NoError before
    \* History, read by the properties only:
    last,        \* the pointer of the instruction executed last
    open,        \* the compile() spans entered and not yet left
    done,        \* the spans left: [kind, before, after] operand stacks
    pending,     \* the calls in progress: [clo, site, env, printed] and
                 \* envs and call_stack as they were before the Invoke
    callLog,     \* the calls that returned: [site, env, res, printed]
    created,     \* created[id]: [env, site], the environment CloseOver
                 \* captured and the pointer of that CloseOver
    patches,     \* patches[id]: the LetAllocate assignments to closures[id].env
    mismatch,    \* some Invoke passed a number of arguments other than the
                 \* number of names of the callee's Allocate
    \* A function of the program called on its own, outside run():
    call,        \* its name and arguments, and whether it has returned
    ret          \* what the call returned or raised

program == <<file, chunks, spans>>
machine == <<ptr, shared, stack, envs, call_stack, closures, out, status, err>>
history == <<last, open, done, pending, callLog, created, patches, mismatch>>
pure == <<call, ret>>
vars == <<program, machine, history, pure>>

\* InstructionPointer.get_instr
get_instr(p) == chunks[p.chunk + 1][p.chunk_index + 1]

\* The fields of ptr after `ptr.chunk_index += 1`, and of the
\* InstructionPointer(ptr.chunk, ptr.chunk_index + 1) that Invoke makes.
next_instr == InstructionPointer(ptr.chunk, ptr.chunk_index + 1)

\* An InstructionPointer object: its fields, and in `of` the pointer of the
\* jump instruction that holds it as its target (NotShared for an object
\* no instruction holds).
NotShared == InstructionPointer(-1, -1)
Object(fields, of) == [fields |-> fields, of |-> of]

\* instr.target of the jump instruction at p.
target_of(p) == Object(get_instr(p).target, p)

\* As evolve, returning the object it was given.
evolve_Same(obj) == obj

\* attrs.evolve(obj) without changes: a new object with the same fields.
evolve(obj) == Object(obj.fields, NotShared)

Top(seq) == seq[Len(seq)]
Pop(seq) == SubSeq(seq, 1, Len(seq) - 1)

\* seq[-n:] of a Python list: the whole list when n = 0 or n > len(seq).
LastN(seq, n) ==
    IF n = 0 \/ n > Len(seq) THEN seq
    ELSE SubSeq(seq, Len(seq) - n + 1, Len(seq))

\* As DropLastN, with the slice one element short.
DropLastN_OneShort(seq, n) ==
    IF n = 0 \/ n > Len(seq) THEN <<>>
    ELSE SubSeq(seq, 1, Len(seq) - n + 1)

\* seq after `seq[-n:] = []`.
DropLastN(seq, n) ==
    IF n = 0 \/ n > Len(seq) THEN <<>>
    ELSE SubSeq(seq, 1, Len(seq) - n)

\* --- history helpers -------------------------------------------------------

RECURSIVE SortByEnd(_)
\* The spans of a set, longest first.
SortByEnd(S) ==
    IF S = {} THEN <<>>
    ELSE LET s == CHOOSE t \in S : \A u \in S : u.end <= t.end
         IN  <<s>> \o SortByEnd(S \ {s})

\* The non-empty spans that begin at pointer p.
Entered(p, stk, calls) ==
    LET S == {s \in spans : s.chunk = p.chunk /\ s.start = p.chunk_index
                             /\ s.end > s.start}
        sorted == SortByEnd(S)
    IN  [i \in 1..Len(sorted) |->
            [kind |-> sorted[i].kind, chunk |-> p.chunk, end |-> sorted[i].end,
             calls |-> Len(calls), before |-> stk]]

\* The spans that emitted no instruction and sit at pointer p.
EmptyAt(p, stk) ==
    {[kind |-> s.kind, before |-> stk, after |-> stk] :
        s \in {t \in spans : t.chunk = p.chunk /\ t.start = p.chunk_index
                             /\ t.end = t.start}}

RECURSIVE Leave(_, _, _, _)
\* Closes the innermost open spans that end at pointer p.
Leave(op, p, stk, calls) ==
    IF op # <<>> /\ Top(op).chunk = p.chunk /\ Top(op).end = p.chunk_index
                 /\ Top(op).calls = Len(calls)
    THEN LET r == Leave(Pop(op), p, stk, calls)
         IN  [open |-> r.open,
              done |-> r.done \cup {[kind |-> Top(op).kind,
                                     before |-> Top(op).before,
                                     after |-> stk]}]
    ELSE [open |-> op, done |-> {}]

\* The spans without instructions that the machine has just passed when
\* it executes the instruction at ptr: those placed at ptr, unless a Jump
\* led there (a Jump skips the otherwise branch of its If).
Passed ==
    IF last.chunk >= 0 /\ get_instr(last).instr = "Jump" THEN {}
    ELSE EmptyAt(ptr, stack)

\* Updates last, open and done for the step that executed the instruction
\* at ptr and left the machine in the primed state.
Observe ==
    /\ last' = ptr
    /\ IF status' = "running"
       THEN LET r == Leave(open \o Entered(ptr, stack, call_stack),
                           ptr', stack', call_stack')
            IN  /\ open' = r.open
                /\ done' = done \cup r.done \cup Passed
       ELSE /\ open' = open \o Entered(ptr, stack, call_stack)
            /\ done' = done \cup Passed

\* What a call returned, closures described by their fields.
Describe(v, heap) ==
    IF v.k = "ChunkClosure"
    THEN [v |-> ChunkClosure(0), fields |-> <<heap[v.ref]>>]
    ELSE [v |-> v, fields |-> <<>>]

\* --- run() ------------------------------------------------------------------

\* No function is called on its own while run() executes a file.
NoCall == [fn |-> "", returned |-> FALSE]

\* The state run() sets up before its loop, for a compiled file.
Start(f) ==
    LET st == compile_file(f)
    IN  /\ file = f
        /\ chunks = st.chunks
        /\ spans = st.spans
        /\ ptr = InstructionPointer(0, 0)
        /\ shared = NotShared
        /\ stack = <<>>
        /\ envs = <<EmptyEnv>>
        /\ call_stack = <<>>
        /\ closures = <<>>
        /\ out = <<>>
        /\ status = "running"
        /\ err = NoError
        /\ last = InstructionPointer(-1, -1)
        /\ open = <<>>
        /\ done = {}
        /\ pending = <<>>
        /\ callLog = {}
        /\ created = <<>>
        /\ patches = <<>>
        /\ mismatch = FALSE
        /\ call = NoCall
        /\ ret = NoCall

\* run_step raised: the exception leaves run().
Throw(e) ==
    /\ status' = "error" /\ err' = e
    /\ ptr' = ptr /\ shared' = shared /\ chunks' = chunks

\* run_step returned the object obj: `ptr = next_ptr`.
ContinueAt(obj) ==
    /\ status' = "running" /\ err' = err
    /\ ptr' = obj.fields /\ shared' = obj.of /\ chunks' = chunks

\* run_step returned a new InstructionPointer with the fields p.
Continue(p) == ContinueAt(Object(p, NotShared))

\* run_step returned None: `ptr.chunk_index += 1` assigns to the object ptr
\* refers to, and any instruction that holds that object sees the change.
Advance ==
    /\ status' = "running" /\ err' = err
    /\ ptr' = next_instr /\ shared' = shared
    /\ chunks' =
          IF shared = NotShared THEN chunks
          ELSE [chunks EXCEPT
                   ![shared.chunk + 1][shared.chunk_index + 1]
                       .target.chunk_index = @ + 1]

Fetch(name) == status = "running" /\ get_instr(ptr).instr = name

\* case Put(value=value)
run_step_Put ==
    /\ Fetch("Put")
    /\ stack' = Append(stack, get_instr(ptr).value)
    /\ Advance
    /\ UNCHANGED <<file, spans, pure, envs, call_stack, closures, out>>
    /\ UNCHANGED <<pending, callLog, created, patches, mismatch>>
    /\ Observe

\* case Get(name=name): envs[-1].values[name] raises KeyError for a name
\* that is not a key of the dict.
run_step_Get ==
    /\ Fetch("Get")
    /\ LET name == get_instr(ptr).name
       IN  IF envs = <<>>
           THEN Throw(PyError("IndexError")) /\ stack' = stack
           ELSE IF name \notin DOMAIN Top(envs)
           THEN Throw(PyError("KeyError")) /\ stack' = stack
           ELSE /\ stack' = Append(stack, Top(envs)[name])
                /\ Advance
    /\ UNCHANGED <<file, spans, pure, envs, call_stack, closures, out>>
    /\ UNCHANGED <<pending, callLog, created, patches, mismatch>>
    /\ Observe

\* case Write(): print(self.stack[-1])
run_step_Write ==
    /\ Fetch("Write")
    /\ IF stack = <<>>
       THEN Throw(PyError("IndexError")) /\ out' = out
       ELSE IF ~ValueStr(Top(stack)).ok
       THEN Throw(PyError("TypeError")) /\ out' = out
       ELSE /\ out' = Append(out, ValueStr(Top(stack)).s)
            /\ Advance
    /\ pending' = IF status' = "running"
                  THEN [i \in 1..Len(pending) |->
                           [pending[i] EXCEPT !.printed = TRUE]]
                  ELSE pending
    /\ UNCHANGED <<file, spans, pure, stack, envs, call_stack, closures>>
    /\ UNCHANGED <<callLog, created, patches, mismatch>>
    /\ Observe

\* As run_step_Allocate, without self.envs.append(new_env).
run_step_Allocate_NoPush ==
    /\ Fetch("Allocate")
    /\ stack' = DropLastN(stack, Len(get_instr(ptr).names))
    /\ IF envs = <<>>
       THEN Throw(PyError("IndexError")) /\ envs' = envs
       ELSE envs' = envs /\ Advance
    /\ UNCHANGED <<file, spans, pure, call_stack, closures, out>>
    /\ UNCHANGED <<pending, callLog, created, patches, mismatch>>
    /\ Observe

\* case Allocate(names=names).  env is self.envs[-1], an object the list
\* keeps holding: the list shows whatever with_values did to it.
run_step_Allocate ==
    /\ Fetch("Allocate")
    /\ LET names == get_instr(ptr).names
           num_params == Len(names)
           values == LastN(stack, num_params)
       IN  /\ stack' = DropLastN(stack, num_params)
           /\ IF envs = <<>>
              THEN Throw(PyError("IndexError")) /\ envs' = envs
              ELSE LET env == Top(envs)
                       call_ == Env_with_values(env, ZipDict(names, values))
                   IN  /\ envs' = Append(Append(Pop(envs), call_.self),
                                         call_.new)
                       /\ Advance
    /\ UNCHANGED <<file, spans, pure, call_stack, closures, out>>
    /\ UNCHANGED <<pending, callLog, created, patches, mismatch>>
    /\ Observe

\* A Function span ends where this LetAllocate stands: the Let's value is
\* a function literal.
BindsLiteral(p) ==
    \E s \in spans : s.kind = "Function" /\ s.chunk = p.chunk
                     /\ s.end = p.chunk_index

\* case LetAllocate(name=name): `value.env = new_env` assigns the field of
\* the closure object, which every holder of the closure sees.
run_step_LetAllocate ==
    /\ Fetch("LetAllocate")
    /\ LET name == get_instr(ptr).name
       IN  IF stack = <<>>
           THEN /\ Throw(PyError("IndexError"))
                /\ UNCHANGED <<stack, envs, closures, patches>>
           ELSE LET value == Top(stack) IN
                /\ stack' = Pop(stack)
                /\ IF envs = <<>>
                   THEN /\ Throw(PyError("IndexError"))
                        /\ UNCHANGED <<envs, closures, patches>>
                   ELSE LET env == Top(envs)
                            call_ == Env_with_values(env,
                                                     Binding(name, value))
                            new_env == call_.new
                        IN  /\ IF value.k = "ChunkClosure"
                               THEN /\ closures' = [closures EXCEPT
                                                      ![value.ref].env = new_env]
                                    /\ patches' = [patches EXCEPT
                                          ![value.ref] = Append(@,
                                              [name |-> name, env |-> new_env,
                                               literal |-> BindsLiteral(ptr)])]
                               ELSE UNCHANGED <<closures, patches>>
                            /\ envs' = Append(Append(Pop(envs), call_.self),
                                              new_env)
                            /\ Advance
    /\ UNCHANGED <<file, spans, pure, call_stack, out>>
    /\ UNCHANGED <<pending, callLog, created, mismatch>>
    /\ Observe

\* As run_step_Deallocate, without self.envs.pop().
run_step_Deallocate_NoPop ==
    /\ Fetch("Deallocate")
    /\ IF envs = <<>>
       THEN Throw(PyError("IndexError")) /\ envs' = envs
       ELSE envs' = envs /\ Advance
    /\ UNCHANGED <<file, spans, pure, stack, call_stack, closures, out>>
    /\ UNCHANGED <<pending, callLog, created, patches, mismatch>>
    /\ Observe

\* case Deallocate()
run_step_Deallocate ==
    /\ Fetch("Deallocate")
    /\ IF envs = <<>>
       THEN Throw(PyError("IndexError")) /\ envs' = envs
       ELSE envs' = Pop(envs) /\ Advance
    /\ UNCHANGED <<file, spans, pure, stack, call_stack, closures, out>>
    /\ UNCHANGED <<pending, callLog, created, patches, mismatch>>
    /\ Observe

\* As run_step_JumpIfFalse, jumping when the condition is true.
run_step_JumpIfFalse_Inverted ==
    /\ Fetch("JumpIfFalse")
    /\ IF stack = <<>>
       THEN Throw(PyError("IndexError")) /\ stack' = stack
       ELSE LET value == Top(stack) IN
            /\ stack' = Pop(stack)
            /\ IF value.k = "bool"
               THEN IF value.bool
                    THEN ContinueAt(evolve(target_of(ptr)))
                    ELSE Advance
               ELSE Throw(ExecutionError(get_instr(ptr).location,
                                         "'if' condition is not bool"))
    /\ UNCHANGED <<file, spans, pure, envs, call_stack, closures, out>>
    /\ UNCHANGED <<pending, callLog, created, patches, mismatch>>
    /\ Observe

\* case JumpIfFalse(location, target)
run_step_JumpIfFalse ==
    /\ Fetch("JumpIfFalse")
    /\ IF stack = <<>>
       THEN Throw(PyError("IndexError")) /\ stack' = stack
       ELSE LET value == Top(stack) IN
            /\ stack' = Pop(stack)
            /\ IF value.k = "bool"
               THEN IF ~value.bool
                    THEN ContinueAt(evolve(target_of(ptr)))
                    ELSE Advance
               ELSE Throw(ExecutionError(get_instr(ptr).location,
                                         "'if' condition is not bool"))
    /\ UNCHANGED <<file, spans, pure, envs, call_stack, closures, out>>
    /\ UNCHANGED <<pending, callLog, created, patches, mismatch>>
    /\ Observe

\* case Jump(target=target)
run_step_Jump ==
    /\ Fetch("Jump")
    /\ ContinueAt(evolve(target_of(ptr)))
    /\ UNCHANGED <<file, spans, pure, stack, envs, call_stack, closures, out>>
    /\ UNCHANGED <<pending, callLog, created, patches, mismatch>>
    /\ Observe

\* len(arguments) of the Call whose Invoke stands at pointer p.
SiteArgs(p) ==
    LET s == CHOOSE t \in spans : t.kind = "Call" /\ t.chunk = p.chunk
                                  /\ t.end = p.chunk_index + 1
    IN  s.nargs

\* As run_step_Invoke, pushing the current environment again instead of
\* closure.env.
run_step_Invoke_SameEnv ==
    /\ Fetch("Invoke")
    /\ call_stack' = Append(call_stack, next_instr)
    /\ IF stack = <<>>
       THEN /\ Throw(PyError("IndexError"))
            /\ UNCHANGED <<stack, envs, pending, mismatch>>
       ELSE LET closure == Top(stack) IN
            /\ stack' = Pop(stack)
            /\ IF closure.k # "ChunkClosure"
               THEN /\ Throw(ExecutionError(get_instr(ptr).location,
                                            "callee is not callable: Literal"))
                    /\ UNCHANGED <<envs, pending, mismatch>>
               ELSE /\ envs' = Append(envs, Top(envs))
                    /\ Continue(InstructionPointer(closures[closure.ref].chunk, 0))
                    /\ pending' = Append(pending,
                          [clo |-> closure.ref, site |-> ptr,
                           env |-> Top(envs), printed |-> FALSE,
                           envs |-> envs, calls |-> call_stack])
                    /\ mismatch' = (mismatch \/ SiteArgs(ptr) #
                          Len(chunks[closures[closure.ref].chunk + 1][1].names))
    /\ UNCHANGED <<file, spans, pure, closures, out>>
    /\ UNCHANGED <<callLog, created, patches>>
    /\ Observe

\* case Invoke(location): the return address is pushed before the callee
\* is popped and checked.
run_step_Invoke ==
    /\ Fetch("Invoke")
    /\ call_stack' = Append(call_stack, next_instr)
    /\ IF stack = <<>>
       THEN /\ Throw(PyError("IndexError"))
            /\ UNCHANGED <<stack, envs, pending, mismatch>>
       ELSE LET closure == Top(stack) IN
            /\ stack' = Pop(stack)
            /\ IF closure.k # "ChunkClosure"
               THEN /\ Throw(ExecutionError(get_instr(ptr).location,
                                            "callee is not callable: Literal"))
                    /\ UNCHANGED <<envs, pending, mismatch>>
               ELSE /\ envs' = Append(envs, closures[closure.ref].env)
                    /\ Continue(InstructionPointer(closures[closure.ref].chunk, 0))
                    /\ pending' = Append(pending,
                          [clo |-> closure.ref, site |-> ptr,
                           env |-> Top(envs), printed |-> FALSE,
                           envs |-> envs, calls |-> call_stack])
                    /\ mismatch' = (mismatch \/ SiteArgs(ptr) #
                          Len(chunks[closures[closure.ref].chunk + 1][1].names))
    /\ UNCHANGED <<file, spans, pure, closures, out>>
    /\ UNCHANGED <<callLog, created, patches>>
    /\ Observe

\* As run_step_Proceed, returning self.call_stack[-1] without popping it.
run_step_Proceed_Peek ==
    /\ Fetch("Proceed")
    /\ IF envs = <<>>
       THEN /\ Throw(PyError("IndexError"))
            /\ UNCHANGED <<envs, call_stack>>
       ELSE /\ envs' = Pop(envs)
            /\ IF call_stack = <<>>
               THEN Throw(PyError("IndexError")) /\ call_stack' = call_stack
               ELSE call_stack' = call_stack /\ Continue(Top(call_stack))
    /\ IF status' = "running" /\ pending # <<>>
       THEN /\ pending' = Pop(pending)
            /\ callLog' = IF stack = <<>> THEN callLog
                          ELSE callLog \cup
                               {[site |-> Top(pending).site,
                                 env |-> Top(pending).env,
                                 printed |-> Top(pending).printed,
                                 res |-> Describe(Top(stack), closures)]}
       ELSE UNCHANGED <<pending, callLog>>
    /\ UNCHANGED <<file, spans, pure, stack, closures, out>>
    /\ UNCHANGED <<created, patches, mismatch>>
    /\ Observe

\* case Proceed()
run_step_Proceed ==
    /\ Fetch("Proceed")
    /\ IF envs = <<>>
       THEN /\ Throw(PyError("IndexError"))
            /\ UNCHANGED <<envs, call_stack>>
       ELSE /\ envs' = Pop(envs)
            /\ IF call_stack = <<>>
               THEN Throw(PyError("IndexError")) /\ call_stack' = call_stack
               ELSE call_stack' = Pop(call_stack) /\ Continue(Top(call_stack))
    /\ IF status' = "running" /\ pending # <<>>
       THEN /\ pending' = Pop(pending)
            /\ callLog' = IF stack = <<>> THEN callLog
                          ELSE callLog \cup
                               {[site |-> Top(pending).site,
                                 env |-> Top(pending).env,
                                 printed |-> Top(pending).printed,
                                 res |-> Describe(Top(stack), closures)]}
       ELSE UNCHANGED <<pending, callLog>>
    /\ UNCHANGED <<file, spans, pure, stack, closures, out>>
    /\ UNCHANGED <<created, patches, mismatch>>
    /\ Observe

\* case Operation(location, op)
run_step_Operation ==
    /\ Fetch("Operation")
    /\ IF Len(stack) < 2
       THEN Throw(PyError("ValueError")) /\ stack' = stack
       ELSE LET lhs == stack[Len(stack) - 1]
                rhs == stack[Len(stack)]
                r == run_op(lhs, get_instr(ptr).op, rhs,
                            get_instr(ptr).location)
            IN  IF r.ok
                THEN /\ stack' = Append(DropLastN(stack, 2), r.v)
                     /\ Advance
                ELSE Throw(r.err) /\ stack' = stack
    /\ UNCHANGED <<file, spans, pure, envs, call_stack, closures, out>>
    /\ UNCHANGED <<pending, callLog, created, patches, mismatch>>
    /\ Observe

\* case CloseOver(fn=fn): a new ChunkClosure object.
run_step_CloseOver ==
    /\ Fetch("CloseOver")
    /\ IF envs = <<>>
       THEN /\ Throw(PyError("IndexError"))
            /\ UNCHANGED <<stack, closures, created, patches>>
       ELSE /\ closures' = Append(closures, [chunk |-> get_instr(ptr).fn,
                                             env |-> Top(envs)])
            /\ stack' = Append(stack, ChunkClosure(Len(closures) + 1))
            /\ created' = Append(created, [env |-> Top(envs), site |-> ptr])
            /\ patches' = Append(patches, <<>>)
            /\ Advance
    /\ UNCHANGED <<file, spans, pure, envs, call_stack, out>>
    /\ UNCHANGED <<pending, callLog, mismatch>>
    /\ Observe

\* case Halt(): run_step returns InstructionPointer(None, -1) and run()
\* breaks out of its loop.
run_step_Halt ==
    /\ Fetch("Halt")
    /\ status' = "halted"
    /\ UNCHANGED <<program, pure, ptr, shared, stack, envs, call_stack>>
    /\ UNCHANGED <<closures, out, err>>
    /\ UNCHANGED <<pending, callLog, created, patches, mismatch>>
    /\ Observe

\* ---------------------------------------------------------------------------
\* The programs the machine is started on
\* ---------------------------------------------------------------------------

\* fn(a) { a + x }
AddX(n) ==
    FunctionTerm(n, <<"a">>,
        BinaryTerm(n + 1, VarTerm(n + 2, "a"), "ADD", VarTerm(n + 3, "x")))

\* k
ProgInt(k) == File("Int", IntTerm(1, k))

\* print(a + b * 3)
ProgArith(a, b) ==
    File("Arith", PrintTerm(1, BinaryTerm(2, IntTerm(3, a), "ADD",
            BinaryTerm(4, IntTerm(5, b), "MUL", IntTerm(6, 3)))))

\* print("hello " + "world")
ProgHello ==
    File("Hello", PrintTerm(1, BinaryTerm(2, StrTerm(3, "hello "), "ADD",
                                 StrTerm(4, "world"))))

\* let x = 10; let y = 20; print(x + y)
ProgLets ==
    File("Lets", LetTerm(1, "x", IntTerm(2, 10),
         LetTerm(3, "y", IntTerm(4, 20),
         PrintTerm(5, BinaryTerm(6, VarTerm(7, "x"), "ADD", VarTerm(8, "y"))))))

\* let fib = fn(n) { if n < 2 { n } else { fib(n - 1) + fib(n - 2) } };
\* print(fib(k))
ProgFib(k) ==
    File("Fib", LetTerm(1, "fib",
            FunctionTerm(2, <<"n">>,
                IfTerm(3, BinaryTerm(4, VarTerm(5, "n"), "LT", IntTerm(6, 2)),
                    VarTerm(7, "n"),
                    BinaryTerm(8,
                        CallTerm(9, VarTerm(10, "fib"),
                            <<BinaryTerm(11, VarTerm(12, "n"), "SUB",
                                         IntTerm(13, 1))>>),
                        "ADD",
                        CallTerm(14, VarTerm(15, "fib"),
                            <<BinaryTerm(16, VarTerm(17, "n"), "SUB",
                                         IntTerm(18, 2))>>)))),
            PrintTerm(19, CallTerm(20, VarTerm(21, "fib"), <<IntTerm(22, k)>>))))

\* let x = v; let f = fn(a) { a + x }; let x = w; print(f(10))
ProgShadow(v, w) ==
    File("Shadow", LetTerm(1, "x", IntTerm(2, v),
         LetTerm(3, "f", AddX(4),
         LetTerm(8, "x", IntTerm(9, w),
         PrintTerm(10, CallTerm(11, VarTerm(12, "f"), <<IntTerm(13, 10)>>))))))

\* let x = 1; let f = fn(a) { a + x }; let x = 2; let g = f; print(c(10))
\* for c the name f or g
ProgAlias(c) ==
    File("Alias", LetTerm(1, "x", IntTerm(2, 1),
         LetTerm(3, "f", AddX(4),
         LetTerm(8, "x", IntTerm(9, 2),
         LetTerm(10, "g", VarTerm(11, "f"),
         PrintTerm(12, CallTerm(13, VarTerm(14, c), <<IntTerm(15, 10)>>)))))))

\* let mk = fn(n) { fn(a) { a + n } }; let add1 = mk(k); print(add1(2))
ProgMk(k) ==
    File("Mk", LetTerm(1, "mk",
            FunctionTerm(2, <<"n">>,
                FunctionTerm(3, <<"a">>,
                    BinaryTerm(4, VarTerm(5, "a"), "ADD", VarTerm(6, "n")))),
         LetTerm(7, "add1", CallTerm(8, VarTerm(9, "mk"), <<IntTerm(10, k)>>),
         PrintTerm(11, CallTerm(12, VarTerm(13, "add1"), <<IntTerm(14, 2)>>)))))

\* let mk = fn(n) { fn(a) { a + n } }; print(mk(k)(2))
ProgMkDirect(k) ==
    File("MkDirect", LetTerm(1, "mk",
            FunctionTerm(2, <<"n">>,
                FunctionTerm(3, <<"a">>,
                    BinaryTerm(4, VarTerm(5, "a"), "ADD", VarTerm(6, "n")))),
         PrintTerm(7, CallTerm(8,
             CallTerm(9, VarTerm(10, "mk"), <<IntTerm(11, k)>>),
             <<IntTerm(12, 2)>>))))

\* let f = fn() { 2 }; print(1 + f())
ProgZeroArgs ==
    File("ZeroArgs", LetTerm(1, "f", FunctionTerm(2, <<>>, IntTerm(3, 2)),
         PrintTerm(4, BinaryTerm(5, IntTerm(6, 1), "ADD",
                                 CallTerm(7, VarTerm(8, "f"), <<>>)))))

\* let f = fn() { 2 }; print(f())
ProgZeroArgsAlone ==
    File("ZeroArgsAlone",
         LetTerm(1, "f", FunctionTerm(2, <<>>, IntTerm(3, 2)),
         PrintTerm(4, CallTerm(5, VarTerm(6, "f"), <<>>))))

\* let f = fn(a) { a }; f(1, 2)
ProgTooManyArgs ==
    File("TooManyArgs",
         LetTerm(1, "f", FunctionTerm(2, <<"a">>, VarTerm(3, "a")),
         CallTerm(4, VarTerm(5, "f"), <<IntTerm(6, 1), IntTerm(7, 2)>>)))

\* let f = fn(a, b) { a }; 5 + f(1)
ProgTooFewArgs ==
    File("TooFewArgs",
         LetTerm(1, "f", FunctionTerm(2, <<"a", "b">>, VarTerm(3, "a")),
         BinaryTerm(4, IntTerm(5, 5), "ADD",
                    CallTerm(6, VarTerm(7, "f"), <<IntTerm(8, 1)>>))))

\* let y = 1; print(x)
ProgUnbound ==
    File("Unbound",
         LetTerm(1, "y", IntTerm(2, 1), PrintTerm(3, VarTerm(4, "x"))))

\* (1, 2)
ProgTuple == File("Tuple", TupleTerm(1, IntTerm(2, 1), IntTerm(3, 2)))

\* let p = (1, (2, 3)); print(first(second(p)))
ProgProjection ==
    File("Projection", LetTerm(1, "p",
            TupleTerm(2, IntTerm(3, 1),
                      TupleTerm(4, IntTerm(5, 2), IntTerm(6, 3))),
            PrintTerm(7, FirstTerm(8, SecondTerm(9, VarTerm(10, "p"))))))

\* if b { first((1, 2)) } else { 7 }
ProgIfFirst(b) ==
    File("IfFirst", IfTerm(1, BoolTerm(2, b),
                FirstTerm(3, TupleTerm(4, IntTerm(5, 1), IntTerm(6, 2))),
                IntTerm(7, 7)))

\* let f = fn(a) { a }; print(f)(print(1))
ProgOrder ==
    File("Order", LetTerm(1, "f", FunctionTerm(2, <<"a">>, VarTerm(3, "a")),
         CallTerm(4, PrintTerm(5, VarTerm(6, "f")),
                  <<PrintTerm(7, IntTerm(8, 1))>>)))

\* let x = 1; let f = fn(a) { a + x }; let x = 2;
\* let t = fn(u) { f(10) + (let g = f; 0) }; t(0) + t(0)
ProgTwice ==
    File("Twice", LetTerm(1, "x", IntTerm(2, 1),
         LetTerm(3, "f", AddX(4),
         LetTerm(8, "x", IntTerm(9, 2),
         LetTerm(10, "t",
            FunctionTerm(11, <<"u">>,
                BinaryTerm(12,
                    CallTerm(13, VarTerm(14, "f"), <<IntTerm(15, 10)>>),
                    "ADD",
                    LetTerm(16, "g", VarTerm(17, "f"), IntTerm(18, 0)))),
            BinaryTerm(19,
                CallTerm(20, VarTerm(21, "t"), <<IntTerm(22, 0)>>),
                "ADD",
                CallTerm(23, VarTerm(24, "t"), <<IntTerm(25, 0)>>)))))))

\* let f = fn(a) { f }; let g = f; let f = 2; let h = g; print(h(0))
ProgRebound ==
    File("Rebound", LetTerm(1, "f", FunctionTerm(2, <<"a">>, VarTerm(3, "f")),
         LetTerm(4, "g", VarTerm(5, "f"),
         LetTerm(6, "f", IntTerm(7, 2),
         LetTerm(8, "h", VarTerm(9, "g"),
         PrintTerm(10, CallTerm(11, VarTerm(12, "h"), <<IntTerm(13, 0)>>)))))))

\* 1()
ProgNotCallable ==
    File("NotCallable", CallTerm(1, IntTerm(2, 1), <<>>))

\* if c { "yes" } else { "no" }, for a condition term c
ProgIf(c) ==
    File("If",
         PrintTerm(1, IfTerm(2, c, StrTerm(3, "yes"), StrTerm(4, "no"))))

Conditions ==
    << BoolTerm(5, TRUE), BoolTerm(5, FALSE), IntTerm(5, 1),
       BinaryTerm(5, BoolTerm(6, TRUE), "AND", BoolTerm(7, FALSE)),
       BinaryTerm(5, BoolTerm(6, FALSE), "OR", BoolTerm(7, TRUE)),
       BinaryTerm(5, IntTerm(6, 1), "EQ", IntTerm(7, 1)),
       BinaryTerm(5, StrTerm(6, "a"), "NEQ", StrTerm(7, "a")),
       BinaryTerm(5, IntTerm(6, 1), "EQ", StrTerm(7, "a")),
       BinaryTerm(5, IntTerm(6, 7), "GTE", IntTerm(7, 2)) >>

\* print(a op b) for integer literals
ProgOp(a, op, b) ==
    File("Op", PrintTerm(1, BinaryTerm(2, IntTerm(3, a), op, IntTerm(4, b))))

\* print(1 + true)
ProgAddBool ==
    File("AddBool",
         PrintTerm(1, BinaryTerm(2, IntTerm(3, 1), "ADD", BoolTerm(4, TRUE))))

\* let loop = fn(n, acc) { if n == 0 { acc } else { loop(n - 1, acc + n) } };
\* print(loop(k, 0))
ProgLoop(k) ==
    File("Loop", LetTerm(1, "loop",
            FunctionTerm(2, <<"n", "acc">>,
                IfTerm(3, BinaryTerm(4, VarTerm(5, "n"), "EQ", IntTerm(6, 0)),
                    VarTerm(7, "acc"),
                    CallTerm(8, VarTerm(9, "loop"),
                        <<BinaryTerm(10, VarTerm(11, "n"), "SUB", IntTerm(12, 1)),
                          BinaryTerm(13, VarTerm(14, "acc"), "ADD",
                                     VarTerm(15, "n"))>>))),
            PrintTerm(16, CallTerm(17, VarTerm(18, "loop"),
                                   <<IntTerm(19, k), IntTerm(20, 0)>>))))

\* let twice = fn(f, x) { f(f(x)) }; let inc = fn(a) { a + 1 };
\* print(twice(inc, k) + twice(inc, k))
ProgHigherOrder(k) ==
    File("HigherOrder", LetTerm(1, "twice",
            FunctionTerm(2, <<"f", "x">>,
                CallTerm(3, VarTerm(4, "f"),
                    <<CallTerm(5, VarTerm(6, "f"), <<VarTerm(7, "x")>>)>>)),
         LetTerm(8, "inc",
            FunctionTerm(9, <<"a">>,
                BinaryTerm(10, VarTerm(11, "a"), "ADD", IntTerm(12, 1))),
            PrintTerm(13, BinaryTerm(14,
                CallTerm(15, VarTerm(16, "twice"),
                         <<VarTerm(17, "inc"), IntTerm(18, k)>>),
                "ADD",
                CallTerm(19, VarTerm(20, "twice"),
                         <<VarTerm(21, "inc"), IntTerm(22, k)>>))))))

\* print((fn(a) { a * 2 })(k))
ProgImmediate(k) ==
    File("Immediate", PrintTerm(1, CallTerm(2,
            FunctionTerm(3, <<"a">>,
                BinaryTerm(4, VarTerm(5, "a"), "MUL", IntTerm(6, 2))),
            <<IntTerm(7, k)>>)))

\* let g = fn() { 2 }; let f = fn(a, b) { a }; print(f(1, g()))
ProgArgZero ==
    File("ArgZero", LetTerm(1, "g", FunctionTerm(2, <<>>, IntTerm(3, 2)),
         LetTerm(4, "f", FunctionTerm(5, <<"a", "b">>, VarTerm(6, "a")),
         PrintTerm(7, CallTerm(8, VarTerm(9, "f"),
             <<IntTerm(10, 1), CallTerm(11, VarTerm(12, "g"), <<>>)>>)))))

\* let f = fn(a, b) { a }; print(f)(print(1), print(2))
ProgArgPrints ==
    File("ArgPrints",
         LetTerm(1, "f", FunctionTerm(2, <<"a", "b">>, VarTerm(3, "a")),
         CallTerm(4, PrintTerm(5, VarTerm(6, "f")),
                  <<PrintTerm(7, IntTerm(8, 1)), PrintTerm(9, IntTerm(10, 2))>>)))

\* ---------------------------------------------------------------------------
\* The specification: Compiler().compile_file(file), then
\* Interpreter().run(chunks[0])
\* ---------------------------------------------------------------------------

Init ==
    \/ \E a \in 0..MaxArg, b \in {-1, 2} : Start(ProgArith(a, b))
    \/ \E k \in 0..MaxArg :
          \/ Start(ProgInt(k))
          \/ Start(ProgFib(k))
          \/ Start(ProgLoop(k))
          \/ Start(ProgImmediate(k))
    \/ \E v \in 0..1, w \in 1..2 : Start(ProgShadow(v, w))
    \/ \E c \in {"f", "g"} : Start(ProgAlias(c))
    \/ \E k \in 0..1 :
          \/ Start(ProgMk(k))
          \/ Start(ProgMkDirect(k))
          \/ Start(ProgHigherOrder(k))
    \/ \E b \in BOOLEAN : Start(ProgIfFirst(b))
    \/ \E i \in 1..Len(Conditions) : Start(ProgIf(Conditions[i]))
    \/ \E a \in {-7, 7}, op \in {"DIV", "REM", "LT"}, b \in {0, 2} :
          Start(ProgOp(a, op, b))
    \/ Start(ProgHello)
    \/ Start(ProgLets)
    \/ Start(ProgZeroArgs)
    \/ Start(ProgZeroArgsAlone)
    \/ Start(ProgTooManyArgs)
    \/ Start(ProgTooFewArgs)
    \/ Start(ProgUnbound)
    \/ Start(ProgTuple)
    \/ Start(ProgProjection)
    \/ Start(ProgOrder)
    \/ Start(ProgTwice)
    \/ Start(ProgRebound)
    \/ Start(ProgNotCallable)
    \/ Start(ProgAddBool)
    \/ Start(ProgArgZero)
    \/ Start(ProgArgPrints)

Next ==
    \/ run_step_Put
    \/ run_step_Get
    \/ run_step_Write
    \/ run_step_Allocate
    \/ run_step_LetAllocate
    \/ run_step_Deallocate
    \/ run_step_JumpIfFalse
    \/ run_step_Jump
    \/ run_step_Invoke
    \/ run_step_Proceed
    \/ run_step_Operation
    \/ run_step_CloseOver
    \/ run_step_Halt

Spec == Init /\ [][Next]_vars

\* ---------------------------------------------------------------------------
\* run_op called on its own, on operands of every kind
\* ---------------------------------------------------------------------------

\* No file has been given to the compiler.
NoFile == [kind |-> "None"]

\* run() is not executing anything.
Idle ==
    /\ file = NoFile
    /\ chunks = <<>>
    /\ spans = {}
    /\ ptr = InstructionPointer(-1, -1)
    /\ shared = NotShared
    /\ stack = <<>>
    /\ envs = <<>>
    /\ call_stack = <<>>
    /\ closures = <<>>
    /\ out = <<>>
    /\ status = "idle"
    /\ err = NoError
    /\ last = InstructionPointer(-1, -1)
    /\ open = <<>>
    /\ done = {}
    /\ pending = <<>>
    /\ callLog = {}
    /\ created = <<>>
    /\ patches = <<>>
    /\ mismatch = FALSE

\* Literals of the four kinds and a closure of the virtual machine.
Operands ==
    {LitInt(n) : n \in -MaxInt..MaxInt}
        \cup {LitStr(""), LitStr("a"), LitStr("1")}
        \cup {LitBool(b) : b \in BOOLEAN}
        \cup {LitTuple(LitInt(1), LitInt(n)) : n \in 2..3}
        \cup {ChunkClosure(1)}

\* The names of the members of BinaryOp.
Operators ==
    {"ADD", "SUB", "MUL", "DIV", "REM", "EQ", "NEQ", "LT", "GT", "LTE", "GTE",
     "AND", "OR"}

InitOp ==
    /\ Idle
    /\ ret = NoCall
    /\ \E lhs \in Operands, op \in Operators, rhs \in Operands, n \in 1..2 :
          call = [fn |-> "run_op", lhs |-> lhs, op |-> op, rhs |-> rhs,
                  location |-> L(n), returned |-> FALSE]

\* run_op(lhs, op, rhs, location) returns or raises.
Apply_run_op ==
    /\ call.fn = "run_op" /\ ~call.returned
    /\ call' = [call EXCEPT !.returned = TRUE]
    /\ ret' = run_op(call.lhs, call.op, call.rhs, call.location)
    /\ UNCHANGED <<program, machine, history>>

NextOp == Apply_run_op

SpecOp == InitOp /\ [][NextOp]_vars

\* ---------------------------------------------------------------------------
\* nodes.py: the AST loader's choice of a term class
\*
\* A kind string and a class name are sequences of one-letter strings, so
\* that str.lower() works letter by letter.
\* ---------------------------------------------------------------------------

LowerCase ==
    <<"a", "b", "c", "d", "e", "f", "g", "h", "i", "j", "k", "l", "m",
      "n", "o", "p", "q", "r", "s", "t", "u", "v", "w", "x", "y", "z">>

UpperCase ==
    <<"A", "B", "C", "D", "E", "F", "G", "H", "I", "J", "K", "L", "M",
      "N", "O", "P", "Q", "R", "S", "T", "U", "V", "W", "X", "Y", "Z">>

\* ch.lower() and ch.upper() for one letter.
LowerChar(ch) ==
    IF \E i \in 1..26 : UpperCase[i] = ch
    THEN LowerCase[CHOOSE i \in 1..26 : UpperCase[i] = ch] ELSE ch
UpperChar(ch) ==
    IF \E i \in 1..26 : LowerCase[i] = ch
    THEN UpperCase[CHOOSE i \in 1..26 : LowerCase[i] = ch] ELSE ch

\* str.lower()
lower(text) == [i \in 1..Len(text) |-> LowerChar(text[i])]

\* cls.__name__ of a term class.
ClassName(cls) ==
    CASE cls = "Int" -> <<"I", "n", "t">>
      [] cls = "Str" -> <<"S", "t", "r">>
      [] cls = "Bool" -> <<"B", "o", "o", "l">>
      [] cls = "Var" -> <<"V", "a", "r">>
      [] cls = "Tuple" -> <<"T", "u", "p", "l", "e">>
      [] cls = "First" -> <<"F", "i", "r", "s", "t">>
      [] cls = "Second" -> <<"S", "e", "c", "o", "n", "d">>
      [] cls = "Print" -> <<"P", "r", "i", "n", "t">>
      [] cls = "If" -> <<"I", "f">>
      [] cls = "Binary" -> <<"B", "i", "n", "a", "r", "y">>
      [] cls = "Let" -> <<"L", "e", "t">>
      [] cls = "Function" -> <<"F", "u", "n", "c", "t", "i", "o", "n">>
      [] cls = "Call" -> <<"C", "a", "l", "l">>

\* The subclasses of Term that nodes.py defines.
TermClasses ==
    {"Int", "Str", "Bool", "Var", "Tuple", "First", "Second", "Print", "If",
     "Binary", "Let", "Function", "Call"}

\* term_classes = [Let, Function, If, Binary, Call, Print, Var, Int, Str, Bool]
term_classes ==
    <<"Let", "Function", "If", "Binary", "Call", "Print", "Var", "Int", "Str",
      "Bool">>

\* term_by_kind = {cls.__name__.lower(): cls for cls in term_classes}
term_by_kind ==
    [key \in {lower(ClassName(term_classes[i])) : i \in 1..Len(term_classes)}
        |-> term_classes[CHOOSE i \in 1..Len(term_classes) :
                            lower(ClassName(term_classes[i])) = key]]

\* structure_generic_term(obj, t): the class that obj is structured as, or
\* the KeyError of the lookup in term_by_kind.
structure_generic_term(obj) ==
    LET cls_name == lower(obj.kind)
    IN  IF cls_name \in DOMAIN term_by_kind
        THEN [ok |-> TRUE, cls |-> term_by_kind[cls_name], err |-> NoError]
        ELSE [ok |-> FALSE, cls |-> "", err |-> PyError("KeyError")]

\* The name of a class with the letters at the positions in S in upper
\* case and the others in lower case.
Spelling(cls, S) ==
    [i \in 1..Len(ClassName(cls)) |->
        IF i \in S THEN UpperChar(ClassName(cls)[i])
        ELSE LowerChar(ClassName(cls)[i])]

\* A node object of each term class, its kind spelled in every mix of
\* upper and lower case.
InitLoad ==
    /\ Idle
    /\ ret = NoCall
    /\ \E cls \in TermClasses :
          \E S \in SUBSET (1..Len(ClassName(cls))) :
             call = [fn |-> "structure_generic_term",
                     obj |-> [kind |-> Spelling(cls, S)],
                     variant |-> cls, returned |-> FALSE]

\* structure_generic_term(obj, Term) returns or raises.
Apply_structure_generic_term ==
    /\ call.fn = "structure_generic_term" /\ ~call.returned
    /\ call' = [call EXCEPT !.returned = TRUE]
    /\ ret' = structure_generic_term(call.obj)
    /\ UNCHANGED <<program, machine, history>>

NextLoad == Apply_structure_generic_term

SpecLoad == InitLoad /\ [][NextLoad]_vars

\* ---------------------------------------------------------------------------
\* interpreter1.py: the compiler on its own, on every term up to a depth
\* ---------------------------------------------------------------------------

\* The deepest nesting of the terms given to the compiler.
MaxDepth == 2

\* The terms without sub-terms.  (Terms are listed in sequences, never
\* collected in sets: an Int and a Bool differ in the type of their value.)
Leaves == <<IntTerm(0, 1), BoolTerm(0, TRUE), VarTerm(0, "x")>>

\* The terms that have t as one sub-term and leaves as the others, one for
\* every variant of Term and every position of t.
Around(t) ==
    << PrintTerm(0, t),
       LetTerm(0, "x", t, IntTerm(0, 1)),
       LetTerm(0, "x", IntTerm(0, 1), t),
       FunctionTerm(0, <<"x">>, t),
       BinaryTerm(0, t, "ADD", IntTerm(0, 1)),
       BinaryTerm(0, IntTerm(0, 1), "LT", t),
       IfTerm(0, t, IntTerm(0, 1), VarTerm(0, "x")),
       IfTerm(0, BoolTerm(0, TRUE), t, IntTerm(0, 1)),
       IfTerm(0, BoolTerm(0, FALSE), IntTerm(0, 1), t),
       CallTerm(0, t, <<>>),
       CallTerm(0, VarTerm(0, "x"), <<t, IntTerm(0, 1)>>),
       TupleTerm(0, t, IntTerm(0, 1)),
       FirstTerm(0, t),
       SecondTerm(0, t) >>

\* How many terms Around makes of one.
Variants == Len(Around(Leaves[1]))

\* How many terms are nested exactly d deep.
NumTerms(d) == Len(Leaves) * Variants ^ d

RECURSIVE TermOfDepth(_, _)
\* The i-th of the terms nested exactly d deep.
TermOfDepth(d, i) ==
    IF d = 0 THEN Leaves[i]
    ELSE Around(TermOfDepth(d - 1, ((i - 1) \div Variants) + 1))
             [((i - 1) % Variants) + 1]

\* What a call of the compiler returned: it has no raise statement, so it
\* always returns, with Compiler.chunks as the call left them.
Compiled(st) == [raised |-> FALSE, chunks |-> st.chunks]

InitCompile ==
    /\ Idle
    /\ ret = NoCall
    /\ \E d \in 0..MaxDepth, fn \in {"compile_file", "compile"} :
          \E i \in 1..NumTerms(d) :
             call = [fn |-> fn, term |-> TermOfDepth(d, i),
                     returned |-> FALSE]

\* Compiler().compile_file(File(location, name, term)) returns.
Apply_compile_file ==
    /\ call.fn = "compile_file" /\ ~call.returned
    /\ call' = [call EXCEPT !.returned = TRUE]
    /\ ret' = Compiled(compile_file(File("f", call.term)))
    /\ UNCHANGED <<program, machine, history>>

\* compiler.compile(chunk, term) returns, for a compiler that has just
\* made its first chunk.
Apply_compile ==
    /\ call.fn = "compile" /\ ~call.returned
    /\ call' = [call EXCEPT !.returned = TRUE]
    /\ ret' = Compiled(compile(new_chunk([chunks |-> <<>>, spans |-> {},
                                          depth |-> 0]), 0, call.term))
    /\ UNCHANGED <<program, machine, history>>

NextCompile == Apply_compile_file \/ Apply_compile

SpecCompile == InitCompile /\ [][NextCompile]_vars

RECURSIVE Subterms(_)
\* The sub-terms of a term, the term included, one entry per occurrence.
Subterms(t) ==
    <<t>> \o
    CASE t.kind \in {"Print", "First", "Second"} -> Subterms(t.value)
      [] t.kind = "Function" -> Subterms(t.value)
      [] t.kind = "Let" -> Subterms(t.value) \o Subterms(t.next)
      [] t.kind = "Binary" -> Subterms(t.lhs) \o Subterms(t.rhs)
      [] t.kind = "Tuple" -> Subterms(t.first) \o Subterms(t.second)
      [] t.kind = "If" ->
            Subterms(t.condition) \o Subterms(t.then)
                \o Subterms(t.otherwise)
      [] t.kind = "Call" ->
            Subterms(t.callee)
                \o (IF Len(t.arguments) >= 1 THEN Subterms(t.arguments[1])
                    ELSE <<>>)
                \o (IF Len(t.arguments) >= 2 THEN Subterms(t.arguments[2])
                    ELSE <<>>)
      [] OTHER -> <<>>

\* How many sub-terms of t are of a kind in kinds.
CountKind(t, kinds) ==
    LET sub == Subterms(t) IN
    Cardinality({i \in 1..Len(sub) : sub[i].kind \in kinds})

\* ---------------------------------------------------------------------------
\* interpreter1.py: run() on the compiled terms that contain no Call.  No
\* closure is ever invoked, so Allocate, Invoke and Proceed never execute.
\* run() is a loop without suspension points: it keeps taking steps.
\* ---------------------------------------------------------------------------

\* The deepest nesting of the terms that are run, and how many of the terms
\* of one depth are: its first MaxRunTerms.
MaxRunDepth == 2
MaxRunTerms == 600

InitNoCall ==
    \E d \in 0..MaxRunDepth :
        \E i \in 1..Min(NumTerms(d), MaxRunTerms) :
            /\ CountKind(TermOfDepth(d, i), {"Call"}) = 0
            /\ Start(File("NoCall", TermOfDepth(d, i)))

NextNoCall ==
    \/ run_step_Put
    \/ run_step_Get
    \/ run_step_Write
    \/ run_step_LetAllocate
    \/ run_step_Deallocate
    \/ run_step_JumpIfFalse
    \/ run_step_Jump
    \/ run_step_Operation
    \/ run_step_CloseOver
    \/ run_step_Halt

SpecNoCall == InitNoCall /\ [][NextNoCall]_vars /\ WF_vars(NextNoCall)

\* ---------------------------------------------------------------------------
\* Properties
\* ---------------------------------------------------------------------------

\* The machine is about to execute Halt.
AtHalt == status = "running" /\ get_instr(ptr).instr = "Halt"

\* The instruction executed last was a Get.
AfterGet == last.chunk >= 0 /\ get_instr(last).instr = "Get"

\* The chunk binds name itself, as a parameter or by a Let of its body.
Rebinds(c, name) ==
    \E i \in 1..Len(chunks[c + 1]) :
        LET instr == chunks[c + 1][i]
        IN  \/ instr.instr = "LetAllocate" /\ instr.name = name
            \/ instr.instr = "Allocate"
               /\ \E j \in 1..Len(instr.names) : instr.names[j] = name

\* The Get executed last read a name that the body of the closure being
\* called leaves free.
GetOfFreeName ==
    /\ AfterGet
    /\ pending # <<>>
    /\ closures[Top(pending).clo].chunk = last.chunk
    /\ ~Rebinds(last.chunk, get_instr(last).name)

\* The compiler had a rule for every term it was given.
AllTermsCompiled ==
    \A s \in spans : s.kind \notin {"Tuple", "First", "Second"}

\* C1: when the reference evaluator run_file0 completes on a file, the run
\* of the compiled file reaches Halt and has printed the same lines in the
\* same order.
C1_SameOutputAsReference ==
    (status # "running" /\ run_file0(file).ok)
        => (status = "halted" /\ out = run_file0(file).out)

\* C2: two returned calls made by the same Call term in the same
\* environment, with no Write in between, returned equal values.
C2_Purity ==
    \A r1, r2 \in callLog :
        (r1.site = r2.site /\ r1.env = r2.env /\ ~r1.printed /\ ~r2.printed)
            => r1.res = r2.res

\* C3: the instructions emitted for a term, once executed, left the operand
\* stack one value deeper and what was below unchanged.
C3_TermPushesOneValue ==
    \A r \in done :
        /\ Len(r.after) = Len(r.before) + 1
        /\ SubSeq(r.after, 1, Len(r.before)) = r.before

C5_InitialEnvAtHalt == AtHalt => envs = <<EmptyEnv>>

C5_Witness ==
    /\ AtHalt
    /\ callLog # {}
    /\ \E id \in 1..Len(patches) : patches[id] # <<>>

\* C6: call_stack is empty whenever the next instruction is in chunk 0, in
\* particular when Halt executes.
C6_NoCallInChunk0 ==
    (status = "running" /\ ptr.chunk = 0) => call_stack = <<>>

C6_Witness == AtHalt /\ ptr.chunk = 0 /\ callLog # {} /\ call_stack = <<>>

\* C7: right after LetAllocate(name) bound a closure, the closure's env is
\* the new frame and the frame maps name to the closure; and a Get(name) in
\* the body of a closure that a LetAllocate(name) bound pushes that closure.
C7_RecursionThroughLet ==
    /\ (/\ status = "running" /\ last.chunk >= 0
        /\ get_instr(last).instr = "LetAllocate"
        /\ Top(envs)[get_instr(last).name].k = "ChunkClosure")
          => LET c == Top(envs)[get_instr(last).name].ref
             IN  closures[c].env = Top(envs)
    /\ (/\ GetOfFreeName
        /\ \E i \in 1..Len(patches[Top(pending).clo]) :
              patches[Top(pending).clo][i].name = get_instr(last).name)
          => (status = "running"
              /\ Top(stack) = ChunkClosure(Top(pending).clo))

\* The Shadow and Alias programs print 10 + the x of the function's Let.
ReferenceUsesCapturedX ==
    /\ file.name = "Shadow" =>
          run_file0(file).out = <<IntStr(10 + file.expression.value.value)>>
    /\ file.name = "Alias" => run_file0(file).out = <<IntStr(10 + 1)>>

\* C8: in the body of a closure whose function literal a Let bound, a Get
\* of a free name other than the Let's own pushes the value the name had
\* in the frame of that Let; and the reference evaluator prints the same
\* for the shadowing programs.
C8_CaptureUnderShadowing ==
    /\ (/\ GetOfFreeName
        /\ patches[Top(pending).clo] # <<>>
        /\ patches[Top(pending).clo][1].literal
        /\ get_instr(last).name # patches[Top(pending).clo][1].name
        /\ get_instr(last).name \in DOMAIN patches[Top(pending).clo][1].env)
          => (status = "running"
              /\ Top(stack) =
                   patches[Top(pending).clo][1].env[get_instr(last).name])
    /\ status = "halted" => ReferenceUsesCapturedX

\* name is a parameter of the function compiled to chunk c.
IsParameter(c, name) ==
    \E j \in 1..Len(chunks[c + 1][1].names) : chunks[c + 1][1].names[j] = name

\* C9: in the body of a closure that was created inside a function body, a
\* Get of a free name that is a parameter of that enclosing function finds
\* the name and pushes the argument it was bound to when the closure was
\* created, also after the closure was returned and bound by a Let.
C9_LexicalScope ==
    (/\ GetOfFreeName
     /\ created[Top(pending).clo].site.chunk # 0
     /\ IsParameter(created[Top(pending).clo].site.chunk, get_instr(last).name)
     /\ \A i \in 1..Len(patches[Top(pending).clo]) :
           patches[Top(pending).clo][i].name # get_instr(last).name)
      => (status = "running"
          /\ Top(stack) = created[Top(pending).clo].env[get_instr(last).name])

\* C10: a Get of a name that the top environment does not bind ends the
\* run with an ExecutionError carrying the instruction's location, and
\* pushes nothing.
C10_UnknownVariable ==
    [][(/\ Fetch("Get")
        /\ envs # <<>>
        /\ get_instr(ptr).name \notin DOMAIN Top(envs))
         => (/\ status' = "error"
             /\ stack' = stack
             /\ err'.type = "ExecutionError"
             /\ err'.location = get_instr(ptr).location)]_vars

\* C11: the leading Allocate of a chunk entered by a call whose site passes
\* a number of arguments other than the number of the Allocate's names ends
\* the run with an ExecutionError; the body is not entered.
C11_ArityError ==
    [][(/\ Fetch("Allocate")
        /\ ptr.chunk # 0 /\ ptr.chunk_index = 0
        /\ pending # <<>>
        /\ SiteArgs(Top(pending).site) # Len(get_instr(ptr).names))
         => (/\ status' = "error"
             /\ err'.type = "ExecutionError"
             /\ ptr' = ptr)]_vars

\* run_op has returned or raised for the call with operator op.
Returned(op) == call.fn = "run_op" /\ call.returned /\ call.op = op

\* run_op raised ExecutionError with the location it was given.
RaisedExecutionError ==
    ~ret.ok /\ ret.err.type = "ExecutionError"
            /\ ret.err.location = call.location

\* C12: run_op(lhs, DIV, 0) and run_op(lhs, REM, 0) with an integer lhs fail
\* with an ExecutionError carrying the operation's location.
C12_DivByZero ==
    (/\ Returned("DIV") \/ Returned("REM")
     /\ call.lhs.k = "int" /\ call.rhs = LitInt(0))
        => RaisedExecutionError

\* The value ADD is meant to return for operands of the kinds int and str.
Sum(lhs, rhs) ==
    CASE lhs.k = "int" /\ rhs.k = "int" -> LitInt(lhs.int + rhs.int)
      [] lhs.k = "str" /\ rhs.k = "str" -> LitStr(lhs.str \o rhs.str)
      [] lhs.k = "int" /\ rhs.k = "str" -> LitStr(IntStr(lhs.int) \o rhs.str)
      [] lhs.k = "str" /\ rhs.k = "int" -> LitStr(lhs.str \o IntStr(rhs.int))

\* C13: ADD returns the sum or the concatenation when each operand is an
\* integer or a string, and raises ExecutionError for every other pair of
\* operand kinds.
C13_AddOperandKinds ==
    Returned("ADD") =>
        IF call.lhs.k \in {"int", "str"} /\ call.rhs.k \in {"int", "str"}
        THEN ret.ok /\ ret.v = Sum(call.lhs, call.rhs)
        ELSE RaisedExecutionError

\* C14: SUB, MUL, DIV, REM, LT, GT, LTE and GTE raise ExecutionError when
\* an operand is not an integer, and return a value only for two integers.
C14_IntegerOperandsOnly ==
    (/\ call.fn = "run_op" /\ call.returned
     /\ call.op \in {"SUB", "MUL", "DIV", "REM", "LT", "GT", "LTE", "GTE"}
     /\ call.lhs.k # "int" \/ call.rhs.k # "int")
        => RaisedExecutionError

\* C15: EQ and NEQ on literals of different kinds raise ExecutionError; on
\* literals of one kind EQ returns whether they are equal and NEQ returns
\* the negation of what EQ returns.
C15_EqualityOfLiterals ==
    (/\ Returned("EQ") \/ Returned("NEQ")
     /\ IsLiteral(call.lhs) /\ IsLiteral(call.rhs))
        => IF call.lhs.k # call.rhs.k THEN RaisedExecutionError
           ELSE /\ ret.ok
                /\ Returned("EQ") => ret.v = LitBool(call.lhs = call.rhs)
                /\ Returned("NEQ") =>
                      LET eq == run_op(call.lhs, "EQ", call.rhs, call.location)
                      IN  eq.ok /\ ret.v = LitBool(~eq.v.bool)

\* q is the greatest integer not above a / b.
IsFloor(q, a, b) ==
    IF b > 0 THEN b * q <= a /\ a < b * (q + 1)
    ELSE b * q >= a /\ a > b * (q + 1)

\* C16: for integers a and b # 0, DIV returns floor(a / b), and REM returns
\* r with a = floor(a / b) * b + r, r being zero or of the sign of b.
C16_FloorDivision ==
    (/\ Returned("DIV") \/ Returned("REM")
     /\ call.lhs.k = "int" /\ call.rhs.k = "int" /\ call.rhs.int # 0)
        => LET a == call.lhs.int
               b == call.rhs.int
               q == run_op(call.lhs, "DIV", call.rhs, call.location)
           IN  /\ ret.ok /\ ret.v.k = "int"
               /\ q.ok /\ IsFloor(q.v.int, a, b)
               /\ Returned("DIV") => ret.v.int = q.v.int
               /\ Returned("REM") =>
                     /\ a = q.v.int * b + ret.v.int
                     /\ ret.v.int = 0 \/ (ret.v.int > 0) = (b > 0)

\* (-7) / 2 has returned -4.
C16_Witness ==
    /\ Returned("DIV")
    /\ call.lhs = LitInt(-7) /\ call.rhs = LitInt(2)
    /\ ret = Ok(LitInt(-4))

\* C17: the code of a Tuple term pushes one pair literal; the reference
\* evaluator yields the pair of the values 1 and 2 for (1, 2); and the
\* run of let p = (1, (2, 3)); print(first(second(p))) prints 2 and halts,
\* as the reference evaluator does.
C17_Pairs ==
    /\ \A r \in done :
          r.kind = "Tuple" =>
              /\ Len(r.after) = Len(r.before) + 1
              /\ Top(r.after).k = "tuple"
    /\ (file.name = "Tuple" /\ status # "running") =>
          /\ run_file0(file).ok
          /\ run_file0(file).v = LitTuple(LitInt(1), LitInt(2))
    /\ (file.name = "Projection" /\ status # "running") =>
          /\ status = "halted" /\ out = <<"2">>
          /\ run_file0(file).ok /\ run_file0(file).out = <<"2">>

RECURSIVE Canonical(_)
\* The canonical text of a value: integers in base 10, strings raw,
\* booleans in lower case, pairs in parentheses, closures as <#closure>.
Canonical(v) ==
    CASE v.k = "int" -> IntStr(v.int)
      [] v.k = "str" -> v.str
      [] v.k = "bool" -> IF v.bool THEN "true" ELSE "false"
      [] v.k = "tuple" ->
            "(" \o Canonical(v.tuple[1]) \o ", " \o Canonical(v.tuple[2])
                \o ")"
      [] OTHER -> "<#closure>"

\* C18: Write appends one line, the canonical text of the value on top of
\* the operand stack, and leaves the stack unchanged.
C18_WriteCanonical ==
    [][(Fetch("Write") /\ stack # <<>>)
         => (/\ status' = "running"
             /\ stack' = stack
             /\ out' = Append(out, Canonical(Top(stack))))]_vars

\* C19 (compiler): no call of Compiler.compile runs inside another one, so
\* the Python stack holds one compile frame whatever the depth of the term.
CompileDoesNotRecurse == \A s \in spans : s.depth = 1

\* C19 (interpreter): while run() executes, call_stack holds one entry
\* for each guest call in progress.
OneEntryPerGuestCall == status = "running" => Len(call_stack) = Len(pending)

\* C19: neither the compiler nor the interpreter uses host recursion that
\* grows with the input.
C19_NoHostRecursion == CompileDoesNotRecurse /\ OneEntryPerGuestCall

\* C20: for a node of any term class, with its kind in any mix of upper and
\* lower case, the loader finds that class; no kind is rejected.
C20_EveryKindResolves ==
    (call.fn = "structure_generic_term" /\ call.returned)
        => (ret.ok /\ ret.cls = call.variant)

\* The names of a sequence of names.
NameSet(names) == {names[i] : i \in 1..Len(names)}

\* C25: Allocate with N names, N >= 0, on a stack of at least N values
\* removes the top N values and no other, binds the i-th name to the i-th
\* of them, and pushes one frame that overlays the top environment.
C25_AllocateTakesTopN ==
    [][(/\ Fetch("Allocate") /\ envs # <<>>
        /\ Len(get_instr(ptr).names) <= Len(stack))
         => LET names == get_instr(ptr).names
                N == Len(names)
                below == Len(stack) - N
            IN  /\ status' = "running"
                /\ stack' = SubSeq(stack, 1, below)
                /\ Pop(envs') = envs
                /\ DOMAIN Top(envs') = DOMAIN Top(envs) \cup NameSet(names)
                /\ \A i \in 1..N : Top(envs')[names[i]] = stack[below + i]
                /\ \A n \in DOMAIN Top(envs) \ NameSet(names) :
                      Top(envs')[n] = Top(envs)[n]]_vars

\* C26: the env of each closure has been assigned by LetAllocate at most
\* once, and only by the LetAllocate whose Let has the closure's function
\* literal as its value.
C26_PatchedAtMostOnce ==
    \A id \in 1..Len(patches) :
        /\ Len(patches[id]) <= 1
        /\ \A i \in 1..Len(patches[id]) : patches[id][i].literal

\* Some binding of env is the value v.
BoundIn(env, v) == \E n \in DOMAIN env : env[n] = v

\* C27: when LetAllocate is about to assign the env of the closure on top
\* of the stack, the instruction executed last was the CloseOver just
\* before it, and the closure is bound in no environment of envs, in no
\* closure's env, and held by no other slot of the operand stack.
C27_PatchedClosureIsFresh ==
    (/\ Fetch("LetAllocate") /\ stack # <<>>
     /\ Top(stack).k = "ChunkClosure")
        => /\ last = InstructionPointer(ptr.chunk, ptr.chunk_index - 1)
           /\ get_instr(last).instr = "CloseOver"
           /\ \A i \in 1..Len(envs) : ~BoundIn(envs[i], Top(stack))
           /\ \A j \in 1..Len(closures) :
                 ~BoundIn(closures[j].env, Top(stack))
           /\ \A i \in 1..(Len(stack) - 1) : stack[i] # Top(stack)

\* C28: Invoke at (c, i) with a closure on top of the stack pops it, pushes
\* (c, i + 1) on call_stack and the closure's env on envs, and continues
\* at the first instruction of the closure's chunk; with any other value
\* on top it raises ExecutionError and enters no chunk.
C28_Invoke ==
    [][(Fetch("Invoke") /\ stack # <<>> /\ envs # <<>>)
         => IF Top(stack).k = "ChunkClosure"
            THEN LET closure == closures[Top(stack).ref]
                 IN  /\ status' = "running"
                     /\ stack' = Pop(stack)
                     /\ call_stack' = Append(call_stack,
                           InstructionPointer(ptr.chunk, ptr.chunk_index + 1))
                     /\ envs' = Append(envs, closure.env)
                     /\ ptr' = InstructionPointer(closure.chunk, 0)
            ELSE /\ status' = "error"
                 /\ err'.type = "ExecutionError"
                 /\ err'.location = get_instr(ptr).location
                 /\ ptr' = ptr /\ envs' = envs]_vars

\* A call whose closure captured another environment than the caller's
\* has just been entered.
C28_Witness ==
    /\ status = "running" /\ last.chunk >= 0
    /\ get_instr(last).instr = "Invoke"
    /\ ptr.chunk # last.chunk /\ ptr.chunk_index = 0
    /\ Len(call_stack) = 2
    /\ Top(envs) # envs[Len(envs) - 1]

\* C29: the Proceed of a call continues at the instruction after the
\* call's Invoke, with call_stack and envs as they were just before that
\* Invoke; the call that returns is the one entered last.
C29_ReturnProtocol ==
    [][(Fetch("Proceed") /\ pending # <<>>)
         => LET c == Top(pending)
            IN  /\ status' = "running"
                /\ ptr' = InstructionPointer(c.site.chunk,
                                             c.site.chunk_index + 1)
                /\ call_stack' = c.calls
                /\ envs' = c.envs
                /\ pending' = Pop(pending)]_vars

\* A call made inside another call has returned into it.
C29_Witness ==
    /\ status = "running" /\ last.chunk >= 0
    /\ get_instr(last).instr = "Proceed"
    /\ pending # <<>> /\ call_stack # <<>>
    /\ ptr.chunk # 0

\* Some call of compile() emitted exactly the instructions from..to-1 of
\* chunk c.
IsSpan(c, from, to) ==
    \E s \in spans : s.chunk = c /\ s.start = from /\ s.end = to

\* Every JumpIfFalse, at index j, is followed by the code of a term t, a
\* Jump, and the code of a term o; it targets the start of o's code and the
\* Jump targets the first instruction after o's code.
IfLayout ==
    \A c \in 0..(Len(chunks) - 1) :
        \A j \in 0..(Len(chunks[c + 1]) - 1) :
            chunks[c + 1][j + 1].instr = "JumpIfFalse" =>
                LET o == chunks[c + 1][j + 1].target
                    jump == chunks[c + 1][o.chunk_index]
                IN  /\ o.chunk = c
                    /\ jump.instr = "Jump"
                    /\ jump.target.chunk = c
                    /\ IsSpan(c, j + 1, o.chunk_index - 1)
                    /\ IsSpan(c, o.chunk_index, jump.target.chunk_index)
                    /\ jump.target.chunk_index < Len(chunks[c + 1])

\* The instruction at p is one of the instructions from..to-1 of chunk c.
Within(p, c, from, to) ==
    p.chunk = c /\ from <= p.chunk_index /\ p.chunk_index < to

\* A step that stays in the chunk of a JumpIfFalse at index j and moves
\* into the code of its t (closing Jump included) from outside it is that
\* JumpIfFalse on true; one that moves into the code of its o from outside
\* it is that JumpIfFalse on false.  A call and its return are not such
\* steps: they leave the chunk and come back into the branch they left.
BranchesEnteredByTest ==
    (/\ status = "running" /\ status' = "running"
     /\ get_instr(ptr).instr \notin {"Invoke", "Proceed", "Halt"})
        => \A j \in 0..(Len(chunks[ptr.chunk + 1]) - 1) :
              chunks[ptr.chunk + 1][j + 1].instr = "JumpIfFalse" =>
                  LET c == ptr.chunk
                      o == chunks[c + 1][j + 1].target.chunk_index
                      after == chunks[c + 1][o].target.chunk_index
                  IN  /\ (Within(ptr', c, j + 1, o) /\ ~Within(ptr, c, j + 1, o))
                            => /\ ptr.chunk_index = j
                               /\ Top(stack) = LitBool(TRUE)
                      /\ (Within(ptr', c, o, after) /\ ~Within(ptr, c, o, after))
                            => /\ ptr.chunk_index = j
                               /\ Top(stack) = LitBool(FALSE)

\* C30: JumpIfFalse pops one value; on true execution continues with the
\* code of t, whose closing Jump leads past the code of o; on false it
\* continues with the code of o, which ends where that Jump leads; on any
\* other value the run ends with ExecutionError at the JumpIfFalse.
C30_IfBranches ==
    [][/\ IfLayout
       /\ BranchesEnteredByTest
       /\ (Fetch("JumpIfFalse") /\ stack # <<>>) =>
             /\ stack' = Pop(stack)
             /\ IF Top(stack).k = "bool"
                THEN /\ status' = "running"
                     /\ ptr' = IF Top(stack).bool
                               THEN InstructionPointer(ptr.chunk,
                                                       ptr.chunk_index + 1)
                               ELSE get_instr(ptr).target
                ELSE /\ status' = "error"
                     /\ err'.type = "ExecutionError"
                     /\ ptr' = ptr
       /\ Fetch("Jump") =>
             status' = "running" /\ ptr' = get_instr(ptr).target]_vars

\* The code of a then branch has run and its Jump has been taken.
C30_Witness ==
    /\ status = "running" /\ last.chunk >= 0
    /\ get_instr(last).instr = "Jump"
    /\ ptr = get_instr(last).target
    /\ stack # <<>>

\* The machine is about to execute an Invoke.
AtInvoke == status = "running" /\ get_instr(ptr).instr = "Invoke"

\* The Call term whose Invoke is at ptr: its span, and the operand stack
\* as it was when the first instruction of the term executed.
InvokedCall ==
    LET all == open \o Entered(ptr, stack, call_stack)
        I == {i \in 1..Len(all) :
                 /\ all[i].kind = "Call" /\ all[i].chunk = ptr.chunk
                 /\ all[i].end = ptr.chunk_index + 1
                 /\ all[i].calls = Len(call_stack)}
        i == CHOOSE j \in I : \A k \in I : k <= j
        span == CHOOSE t \in spans :
                    /\ t.kind = "Call" /\ t.chunk = ptr.chunk
                    /\ t.end = ptr.chunk_index + 1
    IN  [nargs |-> span.nargs, before |-> all[i].before]

\* The instructions of a Call term are those of its arguments in order,
\* then those of its callee, then the Invoke.
RECURSIVE Consecutive(_, _, _, _)
Consecutive(s, from, n, S) ==
    IF n = 0 THEN from = s.end - 1
    ELSE \E t \in S : /\ t.chunk = s.chunk /\ t.depth = s.depth + 1
                       /\ t.start = from
                       /\ Consecutive(s, t.end, n - 1, S \ {t})

CallLayout ==
    \A s \in spans :
        s.kind = "Call" => Consecutive(s, s.start, s.nargs + 1, spans)

\* C31: when Invoke executes for Call(callee, [a_1..a_N]) the operand stack
\* holds what it held before the term, then the N argument values, then
\* the callee; the code of the arguments precedes in order that of the
\* callee, and so do their Print effects.
C31_ArgumentsThenCallee ==
    /\ CallLayout
    /\ AtInvoke =>
          /\ Len(stack) = Len(InvokedCall.before) + InvokedCall.nargs + 1
          /\ SubSeq(stack, 1, Len(InvokedCall.before)) = InvokedCall.before
    /\ (file = ProgArgPrints /\ status = "halted")
           => out = <<"1", "2", "<#closure>">>

\* The indices of chunk at which an instruction called name stands.
Where(chunk, name) == {i \in 1..Len(chunk) : chunk[i].instr = name}

\* A Tuple, First or Second has its sub-terms in the AST but the compiler
\* never reaches them: the Function terms it compiles are the others.
RECURSIVE CompiledFunctions(_)
CompiledFunctions(t) ==
    CASE t.kind = "Print" -> CompiledFunctions(t.value)
      [] t.kind = "Function" -> 1 + CompiledFunctions(t.value)
      [] t.kind = "Let" ->
            CompiledFunctions(t.value) + CompiledFunctions(t.next)
      [] t.kind = "Binary" ->
            CompiledFunctions(t.lhs) + CompiledFunctions(t.rhs)
      [] t.kind = "If" ->
            CompiledFunctions(t.condition) + CompiledFunctions(t.then)
                + CompiledFunctions(t.otherwise)
      [] t.kind = "Call" ->
            CompiledFunctions(t.callee)
                + (IF Len(t.arguments) >= 1
                   THEN CompiledFunctions(t.arguments[1]) ELSE 0)
                + (IF Len(t.arguments) >= 2
                   THEN CompiledFunctions(t.arguments[2]) ELSE 0)
      [] OTHER -> 0

\* compile_file has returned.
FileCompiled == call.fn = "compile_file" /\ call.returned

\* C32: in the chunks compile_file returns, chunk 0 has one Halt, its last
\* instruction, and no Proceed; there is one more chunk per Function term
\* compiled, and each starts with Allocate and has one Proceed, its last
\* instruction, and no Halt.
C32_ChunkShape ==
    FileCompiled =>
        /\ Len(ret.chunks) = 1 + CompiledFunctions(call.term)
        /\ Where(ret.chunks[1], "Halt") = {Len(ret.chunks[1])}
        /\ Where(ret.chunks[1], "Proceed") = {}
        /\ \A c \in 2..Len(ret.chunks) :
              /\ ret.chunks[c][1].instr = "Allocate"
              /\ Where(ret.chunks[c], "Proceed") = {Len(ret.chunks[c])}
              /\ Where(ret.chunks[c], "Halt") = {}

C32_Witness ==
    /\ FileCompiled
    /\ Len(ret.chunks) = 3
    /\ Len(ret.chunks[2]) > 3

\* The pointers to the Jump and JumpIfFalse instructions of chunks cs.
Jumps(cs) ==
    UNION {{InstructionPointer(c - 1, i - 1) :
               i \in Where(cs[c], "Jump") \cup Where(cs[c], "JumpIfFalse")} :
           c \in 1..Len(cs)}

\* C33: in the chunks compile_file returns, the target of every Jump and
\* JumpIfFalse names the chunk the instruction is in and the index of one
\* of its instructions.
C33_JumpTargetsValid ==
    FileCompiled =>
        \A p \in Jumps(ret.chunks) :
            LET target == ret.chunks[p.chunk + 1][p.chunk_index + 1].target
            IN  /\ target.chunk = p.chunk
                /\ 0 <= target.chunk_index
                /\ target.chunk_index < Len(ret.chunks[p.chunk + 1])

C33_Witness ==
    /\ FileCompiled
    /\ \E p \in Jumps(ret.chunks) :
          /\ p.chunk = 1
          /\ ret.chunks[2][p.chunk_index + 1].target.chunk_index
                 = Len(ret.chunks[2]) - 2

\* C34: no step of run() changes an instruction of a chunk, a jump target
\* included, nor a return address that stays on call_stack.
C34_ChunksNeverChange ==
    [][/\ chunks' = chunks
       /\ \A i \in 1..Min(Len(call_stack), Len(call_stack')) :
             call_stack'[i] = call_stack[i]]_vars

\* run() has advanced ptr after a JumpIfFalse led it to its target, inside
\* a call, and the instruction there executed.
C34_Witness ==
    /\ status = "running"
    /\ ptr = InstructionPointer(last.chunk, last.chunk_index + 1)
    /\ call_stack # <<>>
    /\ \E p \in Jumps(chunks) :
          /\ get_instr(p).instr = "JumpIfFalse"
          /\ get_instr(p).target = last

\* The variants of Term that the match statement of compile has a case for.
CompiledKinds ==
    {"Print", "Var", "Int", "Str", "Bool", "Let", "Function", "Binary", "If",
     "Call"}

\* C35: compile, given a term of a variant it has no case for, raises
\* instead of returning.
C35_UnknownTermRaises ==
    (call.fn = "compile" /\ call.returned
        /\ call.term.kind \notin CompiledKinds) => ret.raised

\* The bindings of env overridden by those of extra.
Overridden(env, extra) ==
    [n \in DOMAIN env \cup DOMAIN extra |->
        IF n \in DOMAIN extra THEN extra[n] ELSE env[n]]

\* The dict that the Allocate or LetAllocate at ptr passes to with_values.
Extra ==
    IF get_instr(ptr).instr = "LetAllocate"
    THEN Binding(get_instr(ptr).name, Top(stack))
    ELSE ZipDict(get_instr(ptr).names,
                 LastN(stack, Len(get_instr(ptr).names)))

\* run_step is executing an Allocate or a LetAllocate, and does not raise.
Allocating ==
    /\ status = "running" /\ status' = "running"
    /\ get_instr(ptr).instr \in {"Allocate", "LetAllocate"}

\* C36: the environment with_values returns has the receiver's bindings
\* overridden by extra, and the receiver keeps its bindings; no step
\* changes the bindings of an environment that stays on env_stack, and a
\* closure keeps the environment it has unless LetAllocate gives it the
\* new one.
C36_EnvsImmutable ==
    [][/\ Allocating =>
             /\ Top(envs') = Overridden(Top(envs), Extra)
             /\ Pop(envs') = envs
       /\ \A i \in 1..Min(Len(envs), Len(envs')) : envs'[i] = envs[i]
       /\ \A id \in 1..Len(closures) :
             \/ closures'[id].env = closures[id].env
             \/ /\ Allocating /\ get_instr(ptr).instr = "LetAllocate"
                /\ closures'[id].env = Top(envs')]_vars

\* A LetAllocate has overridden a name that the environment below binds
\* to another value.
C36_Witness ==
    /\ status = "running" /\ last.chunk >= 0
    /\ get_instr(last).instr = "LetAllocate"
    /\ Len(envs) >= 2
    /\ get_instr(last).name \in DOMAIN envs[Len(envs) - 1]
    /\ Top(envs)[get_instr(last).name]
          # envs[Len(envs) - 1][get_instr(last).name]

\* C37: the run of a compiled term without Call ends, at Halt or with an
\* error, and until then every step moves ptr forward in chunk 0.
C37_NoCallTerminates ==
    /\ <>(status \in {"halted", "error"})
    /\ [][status' = "running" =>
             /\ ptr'.chunk = 0
             /\ ptr'.chunk_index > ptr.chunk_index]_vars

\* A run without Call has taken a Jump over an otherwise branch and
\* reached Halt.
C37_Witness ==
    /\ status = "halted"
    /\ CountKind(file.expression, {"Call"}) = 0
    /\ \E p \in Jumps(chunks) :
          /\ get_instr(p).instr = "Jump"
          /\ get_instr(p).target.chunk_index > p.chunk_index + 1
          /\ \E r \in done : r.kind = "If"

\* C38: whenever run() is about to execute an instruction, env_stack holds
\* at least the environment pushed at the start, at the bottom, and it
\* holds another one above it when the instruction is a Deallocate or a
\* Proceed.
C38_InitialEnvStays ==
    status = "running" =>
        /\ envs # <<>>
        /\ envs[1] = EmptyEnv
        /\ get_instr(ptr).instr \in {"Deallocate", "Proceed"}
              => Len(envs) >= 2

\* A call made with only the initial environment on env_stack has
\* returned.
C38_Witness ==
    /\ status = "running" /\ last.chunk >= 0
    /\ get_instr(last).instr = "Proceed"
    /\ envs = <<EmptyEnv>>

\* ---------------------------------------------------------------------------
\* parser.py: the regular expressions the parser uses
\*
\* A text is a sequence of one-character strings, offsets count from 0 as
\* in the source.  A pattern that needs no backtracking is a sequence of
\* items matched greedily one after the other; the two patterns that need
\* it, the block comment and the string literal, are matched by operators
\* of their own.
\* ---------------------------------------------------------------------------

\* \s
Space == {" ", "\n", "\t", "\r"}

\* \d
Digits == {"0", "1", "2", "3", "4", "5", "6", "7", "8", "9"}

\* [a-zA-Z_]
Alpha ==
    {"a", "b", "c", "d", "e", "f", "g", "h", "i", "j", "k", "l", "m", "n", "o",
     "p", "q", "r", "s", "t", "u", "v", "w", "x", "y", "z", "A", "B", "C", "D",
     "E", "F", "G", "H", "I", "J", "K", "L", "M", "N", "O", "P", "Q", "R", "S",
     "T", "U", "V", "W", "X", "Y", "Z", "_"}

\* \w
Word == Alpha \cup Digits

\* The other characters of the texts of the model.
Punctuation ==
    {"(", ")", "{", "}", ",", ";", "=", "!", "<", ">", "&", "|", "+", "-", "*",
     "/", "%", "\"", "\\", "$"}

\* . without DOTALL
NotNewline == (Word \cup Punctuation \cup Space) \ {"\n"}

\* One character of S; S* when min = 0 and many; S+ when min = 1 and many.
Item(S, min, many) == [item |-> "set", set |-> S, min |-> min, many |-> many]
One(S) == Item(S, 1, FALSE)
\* \b
WordBoundary == [item |-> "b", set |-> {}, min |-> 0, many |-> FALSE]
\* $ under MULTILINE
EndOfLine == [item |-> "$", set |-> {}, min |-> 0, many |-> FALSE]

Seq_(items) == [re |-> "seq", items |-> items]

\* A pattern that is the characters of chars, each standing for itself
\* (as written in the source, [*] [+] [(] [)] [|][|] included).
Chars(chars) == Seq_([i \in 1..Len(chars) |-> One({chars[i]})])

\* keyword\b
Keyword(chars) == Seq_(Chars(chars).items \o <<WordBoundary>>)

\* r"\s*"
Whitespace == Seq_(<<Item(Space, 0, TRUE)>>)
\* r"(?m)//.*$"
LineComment ==
    Seq_(<<One({"/"}), One({"/"}), Item(NotNewline, 0, TRUE), EndOfLine>>)
\* r"(?s)/[*].*?[*]/"
BlockComment == [re |-> "block_comment", items |-> <<>>]
\* r'"([^\"]|\"|\\)*"'
StringLiteral == [re |-> "string", items |-> <<>>]
\* r"[+-]"
Sign == Seq_(<<One({"+", "-"})>>)
\* r"[a-zA-Z_]\w*"
Symbol == Seq_(<<One(Alpha), Item(Word, 0, TRUE)>>)
\* r"\d+"
Number == Seq_(<<Item(Digits, 1, TRUE)>>)

\* How many characters of s, from offset i on, are in S.
RECURSIVE Run(_, _, _)
Run(s, i, S) ==
    IF i < Len(s) /\ s[i + 1] \in S THEN 1 + Run(s, i + 1, S) ELSE 0

IsWord(s, i) == 0 <= i /\ i < Len(s) /\ s[i + 1] \in Word

\* The offset where the items from the k-th on stop matching s from offset
\* i, or -1 when they do not match.
RECURSIVE MatchItems(_, _, _, _)
MatchItems(items, k, s, i) ==
    IF k > Len(items) THEN i
    ELSE LET it == items[k]
         IN  CASE it.item = "b" ->
                    IF IsWord(s, i - 1) # IsWord(s, i)
                    THEN MatchItems(items, k + 1, s, i) ELSE -1
               [] it.item = "$" ->
                    IF i = Len(s) \/ s[i + 1] = "\n"
                    THEN MatchItems(items, k + 1, s, i) ELSE -1
               [] it.item = "set" ->
                    LET n == Run(s, i, it.set)
                    IN  IF n < it.min THEN -1
                        ELSE MatchItems(items, k + 1, s,
                                        i + (IF it.many THEN n ELSE 1))

\* The least offset j >= i with s[j] = a and s[j + 1] = b, or -1.
RECURSIVE FindPair(_, _, _, _)
FindPair(s, i, a, b) ==
    IF i + 1 >= Len(s) THEN -1
    ELSE IF s[i + 1] = a /\ s[i + 2] = b THEN i
    ELSE FindPair(s, i + 1, a, b)

\* The greatest offset j with i <= j < Len(s) and s[j] = a, or -1.
RECURSIVE FindLast(_, _, _)
FindLast(s, i, a) ==
    IF i >= Len(s) THEN -1
    ELSE LET later == FindLast(s, i + 1, a)
         IN  IF later # -1 THEN later
             ELSE IF s[i + 1] = a THEN i ELSE -1

\* re.match(pattern, s): the end of the match, or -1 for None.
\*   - the lazy .*? of the block comment stops at the first "*/" after the
\*     opening "/*";
\*   - every alternative of the string literal's group is one character,
\*     and together they accept any character, the double quote included:
\*     the greedy star runs to the end of the text and backs up to the last
\*     double quote.
re_match(pattern, s) ==
    CASE pattern.re = "seq" -> MatchItems(pattern.items, 1, s, 0)
      [] pattern.re = "block_comment" ->
            IF Len(s) >= 2 /\ s[1] = "/" /\ s[2] = "*"
            THEN LET j == FindPair(s, 2, "*", "/")
                 IN  IF j = -1 THEN -1 ELSE j + 2
            ELSE -1
      [] pattern.re = "string" ->
            IF Len(s) >= 1 /\ s[1] = "\""
            THEN LET j == FindLast(s, 1, "\"")
                 IN  IF j = -1 THEN -1 ELSE j + 1
            ELSE -1

\* ---------------------------------------------------------------------------
\* parser.py: BaseParser
\*
\* A parser object is the record of its attributes.  A method is an
\* operator from the object to [ok, p, v, exc]: whether it returned, the
\* object afterwards, the value it returned and the exception it raised.
\* ---------------------------------------------------------------------------

RinhaParser(text, filename) ==
    [text |-> text, pos |-> 0, filename |-> filename]

ParseError(text, pos, msg) == [type |-> "ParseError", pos |-> pos, msg |-> msg]
\* `self.print` in term0: RinhaParser has no attribute of that name.
AttributeError == [type |-> "AttributeError", pos |-> -1, msg |-> ""]
NoException == [type |-> "", pos |-> -1, msg |-> ""]

Return(p, v) == [ok |-> TRUE, p |-> p, v |-> v, exc |-> NoException]
Raised(p, exc) == [ok |-> FALSE, p |-> p, v |-> <<>>, exc |-> exc]

\* `v = x` followed by F(v): the value of x is what F is applied to.
Bind(x, F(_)) == F(x)

\* `v = r` for a call r, followed by the rest F(v) of the method; an
\* exception raised by the call goes up instead.
Try(r, F(_)) == IF r.ok THEN F(r) ELSE r

\* `return v` after a call r, or r's exception going up.
Then(r, v) == IF r.ok THEN Return(r.p, v) ELSE r

is_at_end(p) == p.pos >= Len(p.text)

peek(p) == IF is_at_end(p) THEN "" ELSE p.text[p.pos + 1]

\* A re.Match, or None when matched is FALSE.
NoMatch == [matched |-> FALSE, end |-> 0, group |-> <<>>]

lookahead(p, pattern) ==
    Bind(re_match(pattern, SubSeq(p.text, p.pos + 1, Len(p.text))),
         LAMBDA end :
            IF end = -1 THEN NoMatch
            ELSE [matched |-> TRUE, end |-> end,
                  group |-> SubSeq(p.text, p.pos + 1, p.pos + end)])

match(p, pattern) ==
    Bind(lookahead(p, pattern),
         LAMBDA m :
            Return(IF m.matched THEN [p EXCEPT !.pos = p.pos + m.end] ELSE p,
                   m))

\* BaseParser.fail
BaseParser_fail(p, msg) == Raised(p, ParseError(p.text, p.pos, msg))

expect(p, pattern, msg) ==
    Bind(match(p, pattern),
         LAMBDA r : IF r.v.matched THEN r ELSE BaseParser_fail(r.p, msg))

\* ws() returns nothing and raises nothing: the value is the object
\* afterwards.
RECURSIVE ws(_)
ws(p) ==
    Bind(match(p, Whitespace).p, LAMBDA spaces :
    Bind(match(spaces, LineComment), LAMBDA line :
        IF line.v.matched THEN ws(line.p)
        ELSE Bind(match(spaces, BlockComment), LAMBDA block_ :
                IF block_.v.matched THEN ws(block_.p) ELSE spaces)))

\* As Try, for a call r that self.ws() follows: the rest of the method sees
\* what r returned and the object after ws().
TryWs(r, F(_)) == IF r.ok THEN F([r EXCEPT !.p = ws(r.p)]) ELSE r

\* ---------------------------------------------------------------------------
\* parser.py: OpenLocation, and the nodes the parser builds
\*
\* The attrs classes take their fields in the order of declaration, and
\* nothing checks their types: a field of a Loc holds whatever was passed at
\* its position, an int or a str, tagged here by t.
\* ---------------------------------------------------------------------------

PyInt(n) == [t |-> "int", i |-> n, s |-> ""]
PyStr(x) == [t |-> "str", i |-> 0, s |-> x]
PyNone == [t |-> "None", i |-> 0, s |-> ""]

\* nodes.Loc(start, end, filename), by position.
Loc3(start, end, filename) ==
    [start |-> start, end |-> end, filename |-> filename]

OpenLocation(filename, start) ==
    [filename |-> PyStr(filename), start |-> PyInt(start), end |-> PyNone]

\* open_location(): the part before the yield, and the part after it.
open_location(p) == OpenLocation(p.filename, p.pos)
close_location(loc, p) == [loc EXCEPT !.end = PyInt(p.pos)]

\* OpenLocation.location
location(loc) == Loc3(loc.filename, loc.start, loc.end)

\* The node classes, called with positional arguments as the parser does.
NewInt(loc, value) == [kind |-> "Int", location |-> loc, value |-> value]
NewStr(loc, value) == [kind |-> "Str", location |-> loc, value |-> value]
NewBool(loc, value) == [kind |-> "Bool", location |-> loc, value |-> value]
NewVar(loc, text) == [kind |-> "Var", location |-> loc, text |-> text]
NewParameter(loc, text) ==
    [kind |-> "Parameter", location |-> loc, text |-> text]
NewTuple(loc, first_, second_) ==
    [kind |-> "Tuple", location |-> loc, first |-> first_, second |-> second_]
NewFirst(loc, value) == [kind |-> "First", location |-> loc, value |-> value]
NewSecond(loc, value) == [kind |-> "Second", location |-> loc, value |-> value]
NewIf(loc, condition, then, otherwise) ==
    [kind |-> "If", location |-> loc, condition |-> condition,
     then |-> then, otherwise |-> otherwise]
NewLet(loc, name, value, next) ==
    [kind |-> "Let", location |-> loc, name |-> name, value |-> value,
     next |-> next]
NewFunction(loc, value, parameters) ==
    [kind |-> "Function", location |-> loc, value |-> value,
     parameters |-> parameters]
NewCall(loc, callee, arguments) ==
    [kind |-> "Call", location |-> loc, callee |-> callee,
     arguments |-> arguments]
NewBinary(loc, lhs, op, rhs) ==
    [kind |-> "Binary", location |-> loc, lhs |-> lhs, op |-> op, rhs |-> rhs]
NewFile(loc, name, expression) ==
    [kind |-> "File", location |-> loc, name |-> name,
     expression |-> expression]

\* BinaryOp.<name>.value.precedence
Precedence(op) ==
    CASE op \in {"MUL", "DIV", "REM"} -> 40
      [] op \in {"ADD", "SUB"} -> 30
      [] op \in {"EQ", "NEQ", "LT", "GT", "LTE", "GTE"} -> 20
      [] op = "AND" -> 10
      [] op = "OR" -> 5

\* ---------------------------------------------------------------------------
\* parser.py: RinhaParser, the methods that call no term()
\* ---------------------------------------------------------------------------

\* operator(): the name of a member of BinaryOp, or "" for None.
operator(p) ==
    LET ch == peek(p)
        one(c, op) == Then(expect(p, Chars(<<c>>), "expecting pattern"), op)
        two(c, d, op) ==
            Then(expect(p, Chars(<<c, d>>), "expecting pattern"), op)
        maybe_equal(c, with, without) ==
            LET m == match(p, Chars(<<c, "=">>))
            IN  IF m.v.matched THEN Return(m.p, with) ELSE one(c, without)
    IN  CASE ch = "*" -> one("*", "MUL")
          [] ch = "/" -> one("/", "DIV")
          [] ch = "%" -> one("%", "REM")
          [] ch = "+" -> one("+", "ADD")
          [] ch = "-" -> one("-", "SUB")
          [] ch = "=" -> two("=", "=", "EQ")
          [] ch = "!" -> two("!", "=", "NEQ")
          [] ch = "<" -> maybe_equal("<", "LTE", "LT")
          [] ch = ">" -> maybe_equal(">", "GTE", "GT")
          [] ch = "&" -> two("&", "&", "AND")
          [] ch = "|" -> two("|", "|", "OR")
          [] ch \in {")", ",", "}", ";", ""} -> Return(p, "")
          [] OTHER ->
                BaseParser_fail(p, "Unexpected character, expecting operator.")

symbol(p) ==
    LET m == expect(p, Symbol, "expecting pattern")
    IN  IF m.ok THEN Return(m.p, m.v.group) ELSE m

DigitValue(ch) ==
    CHOOSE d \in 0..9 :
        <<"0", "1", "2", "3", "4", "5", "6", "7", "8", "9">>[d + 1] = ch

\* int(digits)
RECURSIVE int_of(_)
int_of(digits) ==
    IF digits = <<>> THEN 0
    ELSE 10 * int_of(SubSeq(digits, 1, Len(digits) - 1))
            + DigitValue(digits[Len(digits)])

number_value(p) ==
    LET m == expect(p, Number, "expecting pattern")
    IN  IF m.ok THEN Return(m.p, int_of(m.v.group)) ELSE m

\* str.replace(old, new): the occurrences of old from left to right, not
\* overlapping.
RECURSIVE replace(_, _, _)
replace(s, old, new) ==
    IF Len(s) < Len(old) THEN s
    ELSE IF SubSeq(s, 1, Len(old)) = old
    THEN new \o replace(SubSeq(s, Len(old) + 1, Len(s)), old, new)
    ELSE <<s[1]>> \o replace(Tail(s), old, new)

\* The location of a `with self.open_location() as l` block that was
\* entered at p and left at q.
located(p, q) == location(close_location(open_location(p), q))

string(p) ==
    Try(expect(p, StringLiteral, "expecting string"), LAMBDA m :
        LET inner == SubSeq(m.v.group, 2, Len(m.v.group) - 1)
            unslashed == replace(inner, <<"\\", "\\">>, <<"\\">>)
            text == replace(unslashed, <<"\\", "\"">>, <<"\"">>)
        IN  Return(m.p, NewStr(located(p, m.p), text)))

signed_number(p) ==
    TryWs(expect(p, Sign, "expecting pattern"), LAMBDA m :
    Try(number_value(m.p), LAMBDA num :
        LET sign == IF m.v.group = <<"+">> THEN 1 ELSE -1
        IN  Return(num.p, NewInt(located(p, num.p), sign * num.v))))

number(p) ==
    Try(number_value(p), LAMBDA num :
        Return(num.p, NewInt(located(p, num.p), num.v)))

true(p) ==
    Try(expect(p, Chars(<<"t", "r", "u", "e">>), "expecting pattern"),
        LAMBDA m : Return(m.p, NewBool(located(p, m.p), TRUE)))

false(p) ==
    Try(expect(p, Chars(<<"f", "a", "l", "s", "e">>), "expecting pattern"),
        LAMBDA m : Return(m.p, NewBool(located(p, m.p), FALSE)))

var(p) ==
    Try(symbol(p), LAMBDA text :
        Return(text.p, NewVar(located(p, text.p), text.v)))

parameter(p) ==
    Try(symbol(p), LAMBDA text :
        Return(text.p, NewParameter(located(p, text.p), text.v)))

\* ---------------------------------------------------------------------------
\* parser.py: Operand
\* ---------------------------------------------------------------------------

None == [kind |-> "None"]
Operand(lhs, op, rhs) ==
    [kind |-> "Operand", lhs |-> lhs, op |-> op, rhs |-> rhs]
\* A member of BinaryOp held in the inbox of to_term.
BinaryOp(op) == [kind |-> "BinaryOp", op |-> op]

AssertionError == [type |-> "AssertionError", pos |-> -1, msg |-> ""]

\* The while loop of to_term: inbox and output are Python lists, their last
\* element is the one pop() takes.
RECURSIVE to_term_loop(_, _, _)
to_term_loop(parser, inbox, output) ==
    CASE Len(inbox) = 0 ->
            IF Len(output) = 1 THEN Return(parser, output[1])
            ELSE Raised(parser, AssertionError)
      [] Len(inbox) > 0 /\ Top(inbox).kind = "Operand" ->
            to_term_loop(parser,
                Pop(inbox) \o <<BinaryOp(Top(inbox).op), Top(inbox).rhs,
                                Top(inbox).lhs>>,
                output)
      [] Len(inbox) > 0 /\ Top(inbox).kind = "BinaryOp" ->
            LET rhs == Top(output)
                lhs == Top(Pop(output))
                loc == Loc3(lhs.location.filename, lhs.location.start,
                            rhs.location.end)
            IN  to_term_loop(parser, Pop(inbox),
                    Append(Pop(Pop(output)),
                           NewBinary(loc, lhs, Top(inbox).op, rhs)))
      [] Len(inbox) > 0 /\ Top(inbox).kind = "None" ->
            BaseParser_fail(parser,
                "Attempting to convert incomplete operation")
      [] OTHER -> to_term_loop(parser, Pop(inbox), Append(output, Top(inbox)))

to_term(self, parser) == to_term_loop(parser, <<self>>, <<>>)

\* In term2, `operand` is the Operand at the end of the chain of rhs that
\* starts at `head`, the only one whose rhs is still None.
RECURSIVE operand_of(_)
operand_of(head) ==
    IF head.rhs.kind = "Operand" THEN operand_of(head.rhs) ELSE head

\* `operand.rhs = x`, seen from head.
RECURSIVE set_rhs(_, _)
set_rhs(head, x) ==
    IF head.rhs.kind = "Operand"
    THEN [head EXCEPT !.rhs = set_rhs(head.rhs, x)]
    ELSE [head EXCEPT !.rhs = x]

\* As nests, for an operator of lower or equal precedence.
nests_OrEqual(operator_, operand) ==
    Precedence(operator_) <= Precedence(operand.op)

\* term2: `operator.value.precedence < operand.op.value.precedence`, the
\* test that makes the operator take the term as its own lhs, under operand.
nests(operator_, operand) ==
    Precedence(operator_) < Precedence(operand.op)

\* ---------------------------------------------------------------------------
\* parser.py: RinhaParser, the methods that call term()
\* ---------------------------------------------------------------------------

RECURSIVE term(_), term2(_), term2_loop(_), term2_pass(_, _)
RECURSIVE term1(_), term1_loop(_, _)
RECURSIVE term0(_), call_args(_), call_args_loop(_, _), tuple_or_group(_)
RECURSIVE first(_), second(_), one_arg(_), fn(_), fn_parameters(_, _)
RECURSIVE if_(_), let(_), block(_)

term(p) == term2(p)

\* What a pass of the while loop of term2 leaves: the head, and whether the
\* pass ended in `break`.
Pass(head, broke) == [head |-> head, broke |-> broke]

term2(p) ==
    TryWs(term1(p), LAMBDA t :
    Try(operator(t.p), LAMBDA op :
        IF op.v = "" THEN Return(op.p, t.v)
        ELSE Try(term2_loop(
                    Return(op.p, Pass(Operand(t.v, op.v, None), FALSE))),
                 LAMBDA left : to_term(left.v, left.p))))

\* The while loop of term2 from the pass before on: the head it leaves.
term2_loop(pass) ==
    CASE ~pass.ok -> pass
      [] pass.v.broke \/ is_at_end(pass.p) -> Return(pass.p, pass.v.head)
      [] OTHER -> term2_loop(term2_pass(pass.p, pass.v.head))

\* One pass of the body of the while loop of term2.
term2_pass(p, head) ==
    TryWs(term1(ws(p)), LAMBDA t :
    Try(operator(t.p), LAMBDA op :
        Return(op.p,
               CASE op.v = "" -> Pass(set_rhs(head, t.v), TRUE)
                 [] op.v # "" /\ nests(op.v, operand_of(head)) ->
                        Pass(set_rhs(head, Operand(t.v, op.v, None)), FALSE)
                 [] OTHER ->
                        Pass(Operand(set_rhs(head, t.v), op.v, None), FALSE))))

term1(p) == TryWs(term0(p), LAMBDA t : term1_loop(t.p, t.v))

\* The while loop of term1.
term1_loop(p, callee) ==
    IF peek(p) # "(" THEN Return(p, callee)
    ELSE Try(call_args(p), LAMBDA args :
            term1_loop(ws(args.p),
                NewCall(Loc3(callee.location.filename, callee.location.start,
                             PyInt(args.p.pos)),
                        callee, args.v)))

term0(p) ==
    LET ch == peek(p)
        word(chars) == lookahead(p, Keyword(chars)).matched
    IN  CASE ch = "(" -> tuple_or_group(p)
          [] ch = "\"" -> string(p)
          [] ch \in {"+", "-"} -> signed_number(p)
          [] ch = "f" /\ word(<<"f", "i", "r", "s", "t">>) -> first(p)
          [] ch = "f" /\ word(<<"f", "n">>) -> fn(p)
          [] ch = "f" /\ word(<<"f", "a", "l", "s", "e">>) -> false(p)
          [] ch = "i" /\ word(<<"i", "f">>) -> if_(p)
          [] ch = "l" /\ word(<<"l", "e", "t">>) -> let(p)
          [] ch = "p" /\ word(<<"p", "r", "i", "n", "t">>) ->
                Raised(p, AttributeError)
          [] ch = "s" /\ word(<<"s", "e", "c", "o", "n", "d">>) -> second(p)
          [] ch = "t" /\ word(<<"t", "r", "u", "e">>) -> true(p)
          [] ch \in Digits -> number(p)
          [] OTHER -> var(p)

call_args(p) ==
    Try(expect(p, Chars(<<"(">>), "expecting pattern"), LAMBDA opened :
    Try(call_args_loop(opened.p, <<>>), LAMBDA args :
        Then(expect(args.p, Chars(<<")">>), "expecting pattern"), args.v)))

\* The while loop of call_args.
call_args_loop(p, args) ==
    IF peek(p) = ")" THEN Return(p, args)
    ELSE TryWs(term(ws(p)), LAMBDA t :
            LET comma == match(t.p, Chars(<<",">>))
            IN  IF comma.v.matched
                THEN call_args_loop(comma.p, Append(args, t.v))
                ELSE Return(comma.p, Append(args, t.v)))

tuple_or_group(p) ==
    Try(expect(p, Chars(<<"(">>), "expecting pattern"), LAMBDA opened :
    TryWs(term(opened.p), LAMBDA first_ :
        LET comma == match(first_.p, Chars(<<",">>))
        IN  IF ~comma.v.matched
            THEN Then(expect(comma.p, Chars(<<")">>), "expecting pattern"),
                      first_.v)
            ELSE TryWs(term(ws(comma.p)), LAMBDA second_ :
                 Try(expect(second_.p, Chars(<<")">>), "expecting pattern"),
                     LAMBDA closed :
                        Return(closed.p,
                               NewTuple(located(p, closed.p),
                                        first_.v, second_.v))))))

one_arg(p) ==
    TryWs(expect(p, Chars(<<"(">>), "expecting pattern"), LAMBDA opened :
    TryWs(term(opened.p), LAMBDA arg :
        Then(expect(arg.p, Chars(<<")">>), "expecting pattern"), arg.v)))

first(p) ==
    TryWs(expect(p, Chars(<<"f", "i", "r", "s", "t">>), "expecting pattern"),
          LAMBDA m :
    Try(one_arg(m.p), LAMBDA arg :
        Return(arg.p, NewFirst(located(p, arg.p), arg.v))))

second(p) ==
    TryWs(expect(p, Chars(<<"s", "e", "c", "o", "n", "d">>),
                 "expecting pattern"),
          LAMBDA m :
    Try(one_arg(m.p), LAMBDA arg :
        Return(arg.p, NewSecond(located(p, arg.p), arg.v))))

block(p) ==
    TryWs(expect(p, Chars(<<"{">>), "expecting pattern"), LAMBDA opened :
    TryWs(term(opened.p), LAMBDA t :
        Then(expect(t.p, Chars(<<"}">>), "expecting pattern"), t.v)))

\* The while loop of fn.
fn_parameters(p, params) ==
    IF peek(p) = ")" THEN Return(p, params)
    ELSE TryWs(parameter(ws(p)), LAMBDA param :
            LET comma == match(param.p, Chars(<<",">>))
            IN  IF comma.v.matched
                THEN fn_parameters(comma.p, Append(params, param.v))
                ELSE Return(comma.p, Append(params, param.v)))

fn(p) ==
    TryWs(expect(p, Chars(<<"f", "n">>), "expecting pattern"), LAMBDA m :
    Try(expect(m.p, Chars(<<"(">>), "expecting pattern"), LAMBDA opened :
    Try(fn_parameters(opened.p, <<>>), LAMBDA params :
    TryWs(expect(params.p, Chars(<<")">>), "expecting pattern"),
          LAMBDA closed :
    Try(block(closed.p), LAMBDA value :
        Return(value.p,
               NewFunction(located(p, value.p), value.v, params.v)))))))

if_(p) ==
    TryWs(expect(p, Chars(<<"i", "f">>), "expecting pattern"), LAMBDA m :
    TryWs(term(m.p), LAMBDA condition :
    TryWs(block(condition.p), LAMBDA then :
    TryWs(expect(then.p, Chars(<<"e", "l", "s", "e">>), "expecting pattern"),
          LAMBDA else :
    Try(block(else.p), LAMBDA otherwise :
        Return(otherwise.p,
               NewIf(located(p, otherwise.p),
                     condition.v, then.v, otherwise.v)))))))

let(p) ==
    TryWs(expect(p, Chars(<<"l", "e", "t">>), "expecting pattern"), LAMBDA m :
    TryWs(parameter(m.p), LAMBDA name :
    TryWs(expect(name.p, Chars(<<"=">>), "expecting pattern"), LAMBDA equals :
    TryWs(term(equals.p), LAMBDA value :
    TryWs(expect(value.p, Chars(<<";">>), "expecting pattern"), LAMBDA semi :
    Try(term(semi.p), LAMBDA next_ :
        Return(next_.p,
               NewLet(located(p, next_.p), name.v, value.v, next_.v))))))))

\* parse_file(path), for a file at path that holds text.
parse_file(text, path) ==
    Bind(RinhaParser(text, path), LAMBDA parser :
    TryWs(term(ws(parser)), LAMBDA t :
        Return(t.p, NewFile(located(parser, t.p), path, t.v))))

\* ---------------------------------------------------------------------------
\* What a parsed term is, without its locations
\* ---------------------------------------------------------------------------

\* The terms of a list, separated by commas.
RECURSIVE Show(_), ShowList(_)

\* The structure of a node as a sequence of tokens: every Binary in
\* parentheses, an Int as str(value), the characters of a Var or a Str.
Show(t) ==
    CASE t.kind = "Int" -> <<IntStr(t.value)>>
      [] t.kind = "Str" -> <<"\"">> \o t.value \o <<"\"">>
      [] t.kind = "Bool" -> <<IF t.value THEN "true" ELSE "false">>
      [] t.kind \in {"Var", "Parameter"} -> t.text
      [] t.kind = "Binary" ->
            <<"(">> \o Show(t.lhs) \o <<OpToken(t.op)>> \o Show(t.rhs)
                \o <<")">>
      [] t.kind = "Tuple" ->
            <<"Tuple", "(">> \o Show(t.first) \o <<",">> \o Show(t.second)
                \o <<")">>
      [] t.kind = "Call" ->
            <<"Call", "(">> \o Show(t.callee) \o <<";">>
                \o ShowList(t.arguments) \o <<")">>
      [] t.kind \in {"First", "Second"} ->
            <<t.kind, "(">> \o Show(t.value) \o <<")">>
      [] t.kind = "Function" ->
            <<"Function", "(">> \o ShowList(t.parameters) \o <<";">>
                \o Show(t.value) \o <<")">>
      [] t.kind = "Let" ->
            <<"Let", "(">> \o Show(t.name) \o <<";">> \o Show(t.value)
                \o <<";">> \o Show(t.next) \o <<")">>
      [] t.kind = "If" ->
            <<"If", "(">> \o Show(t.condition) \o <<";">> \o Show(t.then)
                \o <<";">> \o Show(t.otherwise) \o <<")">>
      [] t.kind = "File" -> <<"File", "(">> \o Show(t.expression) \o <<")">>

ShowList(ts) ==
    IF Len(ts) = 0 THEN <<>>
    ELSE IF Len(ts) = 1 THEN Show(ts[1])
    ELSE Show(ts[1]) \o <<",">> \o ShowList(Tail(ts))

\* The locations of a node and of the nodes below it.
RECURSIVE Locations(_)
Locations(t) ==
    {t.location} \cup
    CASE t.kind \in {"Int", "Str", "Bool", "Var", "Parameter"} -> {}
      [] t.kind = "Binary" -> Locations(t.lhs) \cup Locations(t.rhs)
      [] t.kind = "Tuple" -> Locations(t.first) \cup Locations(t.second)
      [] t.kind = "Call" ->
            Locations(t.callee) \cup
            UNION {Locations(t.arguments[i]) : i \in 1..Len(t.arguments)}
      [] t.kind \in {"First", "Second"} -> Locations(t.value)
      [] t.kind = "Function" ->
            Locations(t.value) \cup
            UNION {Locations(t.parameters[i]) : i \in 1..Len(t.parameters)}
      [] t.kind = "Let" ->
            Locations(t.name) \cup Locations(t.value) \cup Locations(t.next)
      [] t.kind = "If" ->
            Locations(t.condition) \cup Locations(t.then)
                \cup Locations(t.otherwise)
      [] t.kind = "File" -> Locations(t.expression)

\* ---------------------------------------------------------------------------
\* The parser called on its own: RinhaParser(text, filename).term(),
\* RinhaParser(text).string() and RinhaParser.parse_file(path)
\* ---------------------------------------------------------------------------

\* The most operators of a chain `1 op 2 op ... ` of unsigned operands.
MaxOps == 3

\* The most operators of a chain of + and - whose operands carry signs.
MaxSigned == 2

\* The most characters that follow the opening quote of a text given to
\* string().
MaxStr == 4

FileName == "f.rinha"

\* The example of the module docstring of parser.py, and the grouping the
\* docstring gives for it.
DocExample ==
    <<"1", " ", "+", " ", " ", "2", " ", "*", " ", "3", " ", " ", " ", "-",
      " ", "4", " ", " ", "=", "=", " ", " ", " ", "5", " ", "/", " ", "6",
      " ", " ", "/", " ", "7", " ", " ", " ", "=", "=", " ", " ", "8", " ",
      "<", "=", " ", "9", " ", " ", " ", "&", "&", " ", " ", "1", "0", " ",
      ">", " ", "1", "1", " ", " ", " ", "|", "|", " ", " ", "1", "2", " ",
      "!", "=", " ", "1", "3">>

DocGrouping ==
    <<"(", "(", "(", "(", "(", "(", "1", "+", "(", "2", "*", "3", ")", ")",
      "-", "4", ")", "==", "(", "(", "5", "/", "6", ")", "/", "7", ")",
      ")", "==", "(", "8", "<=", "9", ")", ")", "&&", "(", "10", ">", "11",
      ")", ")", "||", "(", "12", "!=", "13", ")", ")">>

\* Texts of every construct of the language, the cases of test_parse among
\* them.
Texts ==
    <<
      \* f(1)
      <<"f", "(", "1", ")">>,
      \* f(1, 2)(x)
      <<"f", "(", "1", ",", " ", "2", ")", "(", "x", ")">>,
      \* f()
      <<"f", "(", ")">>,
      \* (a, (b, c))
      <<"(", "a", ",", " ", "(", "b", ",", " ", "c", ")", ")">>,
      \* (1 + 2) * 3
      <<"(", "1", " ", "+", " ", "2", ")", " ", "*", " ", "3">>,
      \* true
      <<"t", "r", "u", "e">>,
      \* false
      <<"f", "a", "l", "s", "e">>,
      \* xyz
      <<"x", "y", "z">>,
      \* "xyz"
      <<"\"", "x", "y", "z", "\"">>,
      \* "hello" + "world"
      <<"\"", "h", "e", "l", "l", "o", "\"", " ", "+", " ", "\"", "w", "o",
        "r", "l", "d", "\"">>,
      \* 1 /* c */ + 2 // end
      <<"1", " ", "/", "*", " ", "c", " ", "*", "/", " ", "+", " ", "2",
        " ", "/", "/", " ", "e", "n", "d">>,
      \* fn (a) { a }
      <<"f", "n", " ", "(", "a", ")", " ", "{", " ", "a", " ", "}">>,
      \* let x = 1; x
      <<"l", "e", "t", " ", "x", " ", "=", " ", "1", ";", " ", "x">>,
      \* if true { 1 } else { 2 }
      <<"i", "f", " ", "t", "r", "u", "e", " ", "{", " ", "1", " ", "}",
        " ", "e", "l", "s", "e", " ", "{", " ", "2", " ", "}">>,
      \* first((1, 2))
      <<"f", "i", "r", "s", "t", "(", "(", "1", ",", " ", "2", ")", ")">>,
      \* second((1, 2))
      <<"s", "e", "c", "o", "n", "d", "(", "(", "1", ",", " ", "2", ")", ")">>,
      \* print(1)
      <<"p", "r", "i", "n", "t", "(", "1", ")">>,
      \* 1 +
      <<"1", " ", "+">>,
      \*   12
      <<" ", " ", "1", "2">>,
      \* 1 $ 2
      <<"1", " ", "$", " ", "2">>,
      \* 1 < 2
      <<"1", " ", "<", " ", "2">>,
      \* 1 >= 2
      <<"1", " ", ">", "=", " ", "2">>,
      \* 1 > 2
      <<"1", " ", ">", " ", "2">>,
      \* 1 != 2
      <<"1", " ", "!", "=", " ", "2">>,
      \* 1 / 2
      <<"1", " ", "/", " ", "2">>,
      \* lettuce ==iff
      <<"l", "e", "t", "t", "u", "c", "e", " ", "=", "=", "i", "f", "f">>,
      \* +123
      <<"+", "1", "2", "3">>,
      \* - 123
      <<"-", " ", "1", "2", "3">>,
      DocExample >>

\* The string cases of test_parse, and a string followed by more text.
StringTexts ==
    <<
      \* "xyz"
      <<"\"", "x", "y", "z", "\"">>,
      \* ""
      <<"\"", "\"">>,
      \* "\n"
      <<"\"", "\n", "\"">>,
      \* "\""
      <<"\"", "\\", "\"", "\"">>,
      \* "C:\\Documents"
      <<"\"", "C", ":", "\\", "\\", "D", "o", "c", "u", "m", "e", "n", "t",
        "s", "\"">>,
      \* "hello" + "world"
      <<"\"", "h", "e", "l", "l", "o", "\"", " ", "+", " ", "\"", "w", "o",
        "r", "l", "d", "\"">> >>

\* The characters of the texts given to string() after the opening quote.
StringChars == {"\"", "\\", "a", " "}

\* The operators of the chains, one or more of each precedence.
ChainOps == {"ADD", "SUB", "MUL", "REM", "EQ", "LTE", "AND", "OR"}

\* BinaryOp.<name>.value.token, as characters.
TokenChars(op) ==
    CASE op = "ADD" -> <<"+">> [] op = "SUB" -> <<"-">> [] op = "MUL" -> <<"*">>
      [] op = "DIV" -> <<"/">> [] op = "REM" -> <<"%">>
      [] op = "EQ" -> <<"=", "=">> [] op = "NEQ" -> <<"!", "=">>
      [] op = "LT" -> <<"<">> [] op = "GT" -> <<">">>
      [] op = "LTE" -> <<"<", "=">> [] op = "GTE" -> <<">", "=">>
      [] op = "AND" -> <<"&", "&">> [] op = "OR" -> <<"|", "|">>

\* What may stand before the digits of an operand.
Signs == {<<>>, <<"+">>, <<"-">>, <<"+", " ">>, <<"-", " ">>}

\* The i-th operand of a chain is the digit i behind its sign.
OperandChars(signs, i) == signs[i] \o <<Digit(i)>>
OperandValue(signs, i) ==
    IF signs[i] # <<>> /\ signs[i][1] = "-" THEN -i ELSE i

\* `1 op 2 op 3 ...`: a space before each operator and gap after it.
RECURSIVE ChainText(_, _, _, _)
ChainText(ops, signs, gap, n) ==
    IF n = 0 THEN OperandChars(signs, 1)
    ELSE ChainText(ops, signs, gap, n - 1) \o <<" ">> \o TokenChars(ops[n])
            \o gap \o OperandChars(signs, n + 1)

\* A call on a chain of operands and operators without parentheses.
ChainCall(ops, signs, gap) ==
    [fn |-> "term", text |-> ChainText(ops, signs, gap, Len(ops)),
     ops |-> ops,
     operands |-> [i \in 1..(Len(ops) + 1) |-> OperandValue(signs, i)],
     flat |-> TRUE, returned |-> FALSE]

\* A call on any other text.
TextCall(name, text) ==
    [fn |-> name, text |-> text, ops |-> <<>>, operands |-> <<>>,
     flat |-> FALSE, returned |-> FALSE]

\* The sequences over S of length at most n.
UpTo(S, n) == UNION {[1..k -> S] : k \in 0..n}

InitParse ==
    /\ Idle
    /\ ret = NoCall
    /\ \/ \E ops \in UpTo(ChainOps, MaxOps) :
             call = ChainCall(ops, [i \in 1..(Len(ops) + 1) |-> <<>>], <<" ">>)
       \/ \E ops \in UpTo({"ADD", "SUB"}, MaxSigned) :
             \E signs \in [1..(Len(ops) + 1) -> Signs], gap \in {<<>>, <<" ">>} :
                call = ChainCall(ops, signs, gap)
       \/ \E i \in 1..Len(Texts) : call = TextCall("term", Texts[i])
       \/ \E i \in 1..Len(Texts), before \in {<<>>, <<" ">>},
             after \in {<<>>, <<"\n">>} :
             call = TextCall("parse_file", before \o Texts[i] \o after)
       \/ \E i \in 1..Len(StringTexts) :
             call = TextCall("string", StringTexts[i])
       \/ \E rest \in UpTo(StringChars, MaxStr) :
             call = TextCall("string", <<"\"">> \o rest)

\* RinhaParser(text, filename).term() returns or raises.
Apply_term ==
    /\ call.fn = "term" /\ ~call.returned
    /\ call' = [call EXCEPT !.returned = TRUE]
    /\ ret' = term(RinhaParser(call.text, FileName))
    /\ UNCHANGED <<program, machine, history>>

\* RinhaParser(text, filename).string() returns or raises.
Apply_string ==
    /\ call.fn = "string" /\ ~call.returned
    /\ call' = [call EXCEPT !.returned = TRUE]
    /\ ret' = string(RinhaParser(call.text, FileName))
    /\ UNCHANGED <<program, machine, history>>

\* RinhaParser.parse_file(path) returns or raises.
Apply_parse_file ==
    /\ call.fn = "parse_file" /\ ~call.returned
    /\ call' = [call EXCEPT !.returned = TRUE]
    /\ ret' = parse_file(call.text, FileName)
    /\ UNCHANGED <<program, machine, history>>

NextParse == Apply_term \/ Apply_string \/ Apply_parse_file

SpecParse == InitParse /\ [][NextParse]_vars

\* ---------------------------------------------------------------------------
\* Properties of the parser
\* ---------------------------------------------------------------------------

\* The Binary nodes of t from left to right, each with its operator and
\* its depth below the root.  Of two operators that are neighbours in the
\* text, the deeper one is inside an operand of the other.
RECURSIVE OpDepths(_, _)
OpDepths(t, depth) ==
    IF t.kind = "Binary"
    THEN OpDepths(t.lhs, depth + 1) \o <<[op |-> t.op, depth |-> depth]>>
            \o OpDepths(t.rhs, depth + 1)
    ELSE <<>>

\* term() has returned from a call on a chain without parentheses.
ChainParsed == call.fn = "term" /\ call.returned /\ call.flat

\* C21: a chain of operands and operators parses to a term with the same
\* operators in the same order, in which, of two neighbouring operators of
\* different precedence, the one of higher precedence is grouped first
\* (inside an operand of the other); and the docstring's example parses to
\* the grouping the docstring gives.
C21_PrecedenceGrouping ==
    /\ ChainParsed =>
          /\ ret.ok
          /\ LET ds == OpDepths(ret.v, 0)
             IN  /\ [i \in 1..Len(ds) |-> ds[i].op] = call.ops
                 /\ \A i \in 1..(Len(ds) - 1) :
                       /\ Precedence(ds[i].op) < Precedence(ds[i + 1].op)
                             => ds[i].depth < ds[i + 1].depth
                       /\ Precedence(ds[i].op) > Precedence(ds[i + 1].op)
                             => ds[i].depth > ds[i + 1].depth
    /\ (call.fn = "term" /\ call.returned /\ call.text = DocExample) =>
          ret.ok /\ Show(ret.v) = DocGrouping

\* ((v1 op1 v2) op2 v3) ..., as Show writes it.
RECURSIVE LeftNested(_, _, _)
LeftNested(values, ops, n) ==
    IF n = 0 THEN <<IntStr(values[1])>>
    ELSE <<"(">> \o LeftNested(values, ops, n - 1)
            \o <<OpToken(ops[n]), IntStr(values[n + 1])>> \o <<")">>

SamePrecedence(ops) ==
    \A i, j \in 1..Len(ops) : Precedence(ops[i]) = Precedence(ops[j])

RECURSIVE ClosingQuote(_, _)
ClosingQuote(s, i) ==
    IF i >= Len(s) THEN -1
    ELSE IF s[i + 1] = "\"" THEN i
    ELSE IF s[i + 1] = "\\" THEN ClosingQuote(s, i + 2)
    ELSE ClosingQuote(s, i + 1)

\* s read from left to right, backslash-quote standing for a quote and
\* backslash-backslash for a backslash.
RECURSIVE Unescaped(_)
Unescaped(s) ==
    IF s = <<>> THEN <<>>
    ELSE IF Len(s) >= 2 /\ s[1] = "\\" /\ s[2] \in {"\"", "\\"}
    THEN <<s[2]>> \o Unescaped(SubSeq(s, 3, Len(s)))
    ELSE <<s[1]>> \o Unescaped(Tail(s))

\* C23: on a text that opens with a quote and has an unescaped quote
\* after it, string() returns the Str of the characters between the two,
\* escapes decoded, and stops right behind that closing quote.
C23_StringEndsAtFirstQuote ==
    (call.fn = "string" /\ call.returned /\ ClosingQuote(call.text, 1) # -1)
        => LET closing == ClosingQuote(call.text, 1)
           IN  /\ ret.ok
               /\ ret.p.pos = closing + 1
               /\ ret.v.value = Unescaped(SubSeq(call.text, 2, closing))

\* start and end are offsets into a text of n characters, in that order,
\* and filename is the parser's.
IsSourceRange(loc, n) ==
    /\ loc.start.t = "int" /\ loc.end.t = "int"
    /\ 0 <= loc.start.i /\ loc.start.i <= loc.end.i /\ loc.end.i <= n
    /\ loc.filename = PyStr(FileName)

\* C24: every node of a term or file the parser returns has a location
\* with integer offsets start <= end and the parser's filename.
C24_LocationsAreRanges ==
    (call.returned /\ ret.ok) =>
        \A loc \in Locations(ret.v) : IsSourceRange(loc, Len(call.text))

\* ---------------------------------------------------------------------------
\* interpreter1.py: node_str, the iterative pretty-printer
\* ---------------------------------------------------------------------------

\* A string on node_str's stack, and a (node, level) tuple on it.
StrToken(s) == [tok |-> "str", text |-> s]
NodeToken(node, level) == [tok |-> "node", node |-> node, level |-> level]

\* A Parameter node: the name of a Let or of a Function's parameter.
Parameter(text) == [kind |-> "Parameter", text |-> text]

\* The local `parameters` of node_str: bound by the pattern of the Function
\* case and by nothing else, so unbound until a Function has been visited.
Unbound == [bound |-> FALSE, value |-> <<>>]
Bound(parameters) == [bound |-> TRUE, value |-> parameters]

RECURSIVE Repeat(_, _)
\* n * s
Repeat(n, s) == IF n <= 0 THEN "" ELSE s \o Repeat(n - 1, s)

\* indent(level), local to node_str
indent(level) == "\n" \o Repeat(level, "  ")

\* str(term) of the terms whose __str__ makes no recursive call.  repr() of
\* a str without quotes, backslashes or control characters puts it between
\* single quotes.
leaf_str(term_) ==
    CASE term_.kind \in {"Parameter", "Var"} -> term_.text
      [] term_.kind = "Str" -> "'" \o term_.value \o "'"
      [] term_.kind = "Int" -> IntStr(term_.value)
      [] term_.kind = "Bool" -> IF term_.value THEN "true" ELSE "false"

\* arg_tokens(arg), local to the Binary case
arg_tokens(arg, term_precedence, level) ==
    IF arg.kind = "Binary" /\ Precedence(arg.op) < term_precedence
    THEN <<StrToken(")"), NodeToken(arg, level), StrToken("(")>>
    ELSE <<NodeToken(arg, level)>>

RECURSIVE separated(_, _, _, _)
\* What `for i, x in enumerate(xs[::-1])` has pushed from its i-th round on:
\* (x, level), then ", " when i < count - 1, count being len(parameters).
separated(xs, level, count, i) ==
    IF i >= Len(xs) THEN <<>>
    ELSE <<NodeToken(xs[Len(xs) - i], level)>>
            \o (IF i < count - 1 THEN <<StrToken(", ")>> ELSE <<>>)
            \o separated(xs, level, count, i + 1)

\* The Call case's loop: len(parameters) is evaluated in each round, so
\* with no argument it is not evaluated at all.
call_arguments(arguments, level, parameters) ==
    separated(arguments, level, Len(parameters.value), 0)

\* [Parameter(p) for p in parameters]
ParameterNodes(parameters) ==
    [i \in 1..Len(parameters) |-> Parameter(parameters[i])]

RECURSIVE node_str_loop(_, _, _)
\* `while stack:` of node_str, from a stack, the strings written to buf so
\* far and the local `parameters`, to what node_str returns or raises.
node_str_loop(stk, buf, parameters) ==
    IF stk = <<>> THEN [raised |-> FALSE, err |-> "", buf |-> buf]
    ELSE
    LET node == stk[Len(stk)]
        rest == SubSeq(stk, 1, Len(stk) - 1)
    IN
    IF node.tok = "str" THEN
        node_str_loop(rest, Append(buf, node.text), parameters)
    ELSE
    LET term_ == node.node
        level == node.level
        l0 == indent(level)
        l1 == indent(level + 1)
    IN
    CASE term_.kind \in {"Parameter", "Var", "Str", "Int", "Bool"} ->
            node_str_loop(rest, Append(buf, leaf_str(term_)), parameters)
      [] term_.kind = "File" ->
            node_str_loop(Append(rest, NodeToken(term_.expression, level)),
                          buf, parameters)
      [] term_.kind = "Print" ->
            node_str_loop(
                rest \o <<StrToken(")"), NodeToken(term_.value, level),
                          StrToken("print (")>>,
                buf, parameters)
      [] term_.kind = "First" ->
            node_str_loop(
                rest \o <<StrToken(")"), NodeToken(term_.value, level),
                          StrToken("first(")>>,
                buf, parameters)
      [] term_.kind = "Second" ->
            node_str_loop(
                rest \o <<StrToken(")"), NodeToken(term_.value, level),
                          StrToken("second(")>>,
                buf, parameters)
      [] term_.kind = "Binary" ->
            node_str_loop(
                rest \o arg_tokens(term_.rhs, Precedence(term_.op), level)
                     \o <<StrToken(" " \o OpToken(term_.op) \o " ")>>
                     \o arg_tokens(term_.lhs, Precedence(term_.op), level),
                buf, parameters)
      [] term_.kind = "Let" ->
            node_str_loop(
                rest \o <<NodeToken(term_.next, level), StrToken(l0),
                          StrToken(";"), NodeToken(term_.value, level),
                          StrToken(" = "),
                          NodeToken(Parameter(term_.name), level),
                          StrToken("let ")>>,
                buf, parameters)
      [] term_.kind = "If" ->
            node_str_loop(
                rest \o <<StrToken(l0 \o "}"),
                          NodeToken(term_.otherwise, level + 1),
                          StrToken(l0 \o "} else {" \o l1),
                          NodeToken(term_.then, level + 1),
                          StrToken(" {" \o l1),
                          NodeToken(term_.condition, level),
                          StrToken("if ")>>,
                buf, parameters)
      [] term_.kind = "Tuple" ->
            node_str_loop(
                rest \o <<StrToken(")"), NodeToken(term_.second, level),
                          StrToken(", "), NodeToken(term_.first, level),
                          StrToken("tuple(")>>,
                buf, parameters)
      [] term_.kind = "Call" ->
            IF term_.arguments # <<>> /\ ~parameters.bound
            THEN [raised |-> TRUE, err |-> "UnboundLocalError", buf |-> buf]
            ELSE node_str_loop(
                    rest \o <<StrToken(")")>>
                         \o call_arguments(term_.arguments, level, parameters)
                         \o <<StrToken("("), NodeToken(term_.callee, level)>>,
                    buf, parameters)
      [] term_.kind = "Function" ->
            node_str_loop(
                rest \o <<StrToken(l0 \o "}"),
                          NodeToken(term_.value, level + 1),
                          StrToken(") {" \o l1)>>
                     \o separated(ParameterNodes(term_.parameters), level,
                                  Len(term_.parameters), 0)
                     \o <<StrToken("fn(")>>,
                buf, Bound(term_.parameters))
      [] OTHER -> [raised |-> TRUE, err |-> "ValueError", buf |-> buf]

\* node_str(node): the stack starts as [(node, 0)], buf empty, and
\* `parameters` is not assigned before the loop.
node_str(node) == node_str_loop(<<NodeToken(node, 0)>>, <<>>, Unbound)

RECURSIVE getvalue(_)
\* buf.getvalue(): the strings written, one after the other.
getvalue(buf) ==
    IF buf = <<>> THEN "" ELSE buf[1] \o getvalue(SubSeq(buf, 2, Len(buf)))

\* ---------------------------------------------------------------------------
\* node_str called on its own: str(node) of a File or of a term, the
\* classes whose __str__ is node_str
\* ---------------------------------------------------------------------------

\* The most parameters of a printed Function, the most arguments of a
\* printed Call, and the deepest nesting of the other printed terms.
MaxParams == 3
MaxCallArgs == 3
MaxStrDepth == 1

\* The first n of the arguments 1, 2, 3, ... and of the parameters a1, a2, ...
Arguments(n) == [i \in 1..n |-> IntTerm(0, i)]
Parameters(n) == [i \in 1..n |-> "a" \o IntStr(i)]

\* f(1, .., n)
CallAlone(n) == CallTerm(0, VarTerm(0, "f"), Arguments(n))

\* let f = fn(a1, .., ap) { 0 }; f(1, .., n)
CallAfterFunction(p, n) ==
    LetTerm(0, "f", FunctionTerm(0, Parameters(p), IntTerm(0, 0)),
            CallAlone(n))

\* What a call of node_str returned or raised.
Printed(r) ==
    [raised |-> r.raised, err |-> r.err, buf |-> r.buf,
     value |-> IF r.raised THEN "" ELSE getvalue(r.buf)]

\* str(node) is about to be called on a term, or on the File of it.
StartStr(term_, in_file) ==
    /\ Idle
    /\ ret = NoCall
    /\ call = [fn |-> "node_str",
               node |-> IF in_file THEN File("f", term_) ELSE term_,
               returned |-> FALSE]

InitStr ==
    \E in_file \in BOOLEAN :
        \/ \E n \in 0..MaxCallArgs : StartStr(CallAlone(n), in_file)
        \/ \E p \in 0..MaxParams, n \in 0..MaxCallArgs :
              StartStr(CallAfterFunction(p, n), in_file)
        \/ \E d \in 0..MaxStrDepth : \E i \in 1..NumTerms(d) :
              StartStr(TermOfDepth(d, i), in_file)

\* node_str(node) returns or raises.
Apply_node_str ==
    /\ call.fn = "node_str" /\ ~call.returned
    /\ call' = [call EXCEPT !.returned = TRUE]
    /\ ret' = Printed(node_str(call.node))
    /\ UNCHANGED <<program, machine, history>>

NextStr == Apply_node_str

SpecStr == InitStr /\ [][NextStr]_vars

RECURSIVE LastPrinted(_)
\* The term node_str writes last: the expression of a File, the next of a
\* Let.
LastPrinted(node) ==
    CASE node.kind = "File" -> LastPrinted(node.expression)
      [] node.kind = "Let" -> LastPrinted(node.next)
      [] OTHER -> node

IsLeaf(term_) == term_.kind \in {"Var", "Str", "Int", "Bool"}

\* The printed node ends in a Call of a leaf on leaves.
EndsInLeafCall(node) ==
    LET c == LastPrinted(node) IN
    /\ c.kind = "Call"
    /\ IsLeaf(c.callee)
    /\ \A i \in 1..Len(c.arguments) : IsLeaf(c.arguments[i])

\* The callee, "(", the n arguments with n - 1 separators, ")".
CallText(c) ==
    LET n == Len(c.arguments) IN
    <<leaf_str(c.callee), "(">>
        \o [j \in 1..(IF n = 0 THEN 0 ELSE 2 * n - 1) |->
                IF j % 2 = 1 THEN leaf_str(c.arguments[(j + 1) \div 2])
                ELSE ", "]
        \o <<")">>

\* The last n strings written.
LastWritten(buf, n) ==
    IF Len(buf) < n THEN <<>> ELSE SubSeq(buf, Len(buf) - n + 1, Len(buf))

\* C39: node_str renders a Call as its callee, "(", its arguments in order
\* with exactly n - 1 separators ", " between them, and ")", for every
\* number n >= 0 of arguments and whatever was printed before it in the
\* same traversal: a Function with any number of parameters, or none.
C39_CallRendering ==
    (call.fn = "node_str" /\ call.returned /\ EndsInLeafCall(call.node)) =>
        /\ ~ret.raised
        /\ LastWritten(ret.buf, Len(CallText(LastPrinted(call.node))))
              = CallText(LastPrinted(call.node))

====
